---- MODULE Spec2Model ----
(***************************************************************************)
(* Divitize Zendesk assistant (bot_zendesk.py): the polling pass           *)
(* process_once, the tracking publication state machine                    *)
(* handle_tracking_if_any and the draft gating, over the ticket state the  *)
(* ticket system stores (status, tags, tracking field, comment thread).    *)
(*                                                                         *)
(* Text is modelled as sequences of one-character strings, so that         *)
(* normalize_tag and the substring tests are computed as the code computes *)
(* them.  A tag is a pair <<fixed name or prefix, suffix characters>>.     *)
(***************************************************************************)
EXTENDS Integers, Sequences, FiniteSets, TLC

VARIABLES
    tickets,    \* ticket id -> the ticket as the ticket system stores it
    pc,         \* position of the background thread: "unstarted", "validate",
                \* "dead", in process_once "idle", "origin", "tracking", "draft",
                \* and "helper" where a tag helper is followed on its own
    todo,       \* the tickets of list_recent_tickets() the current loop has not visited yet
    acts,       \* number of actions other actors have taken
    faults,     \* number of collaborator calls that have failed
    env,        \* os.environ as the module read it when it was loaded
    main,       \* position of the main thread: "start", "started", "serving"
    call        \* the ensure_tags / remove_tags call in progress, if any

vars == <<tickets, pc, todo, acts, faults, env, main, call>>

(***************************** bounds ***************************************)
\* Number of actions the customer and the human agents take on a ticket.
MaxActs == 3
\* Number of collaborator calls that fail.
MaxFaults == 1
\* Number of phrases a message of the requester is made of.
MaxPhrases == 2
\* Number of further comments the requester adds to a thread.
MaxWrites == 1

(***************************** characters **********************************)
Upper == <<"A","B","C","D","E","F","G","H","I","J","K","L","M",
           "N","O","P","Q","R","S","T","U","V","W","X","Y","Z">>
\* The characters normalize_tag keeps, in code point order.
TagChars == <<"0","1","2","3","4","5","6","7","8","9","_",
              "a","b","c","d","e","f","g","h","i","j","k","l","m",
              "n","o","p","q","r","s","t","u","v","w","x","y","z">>

UpperSet == {Upper[i] : i \in 1..26}
TagCharSet == {TagChars[i] : i \in 1..37}
LowerOf == [c \in UpperSet |-> TagChars[11 + (CHOOSE i \in 1..26 : Upper[i] = c)]]
OrdOf == [c \in TagCharSet |-> CHOOSE i \in 1..37 : TagChars[i] = c]

\* str.lower() on one character
Lower(c) == IF c \in UpperSet THEN LowerOf[c] ELSE c

\* c is one of [a-z0-9_]
IsTagChar(c) == c \in TagCharSet

\* the rank of c in code point order
Ord(c) == OrdOf[c]

\* s.lower()
LowerStr(s) == [i \in 1..Len(s) |-> Lower(s[i])]

\* needle in hay
Contains(hay, needle) ==
    \E i \in 0..(Len(hay) - Len(needle)) :
        \A k \in 1..Len(needle) : hay[i + k] = needle[k]

\* \s
IsSpace(c) == c \in {" ", "\n", "\t"}

\* str.strip(): leading and trailing white space removed
RECURSIVE LStrip(_)
LStrip(s) == IF s # <<>> /\ IsSpace(Head(s)) THEN LStrip(Tail(s)) ELSE s
RECURSIVE RStrip(_)
RStrip(s) == IF s # <<>> /\ IsSpace(s[Len(s)]) THEN RStrip(SubSeq(s, 1, Len(s) - 1)) ELSE s
Strip(s) == RStrip(LStrip(s))

\* a < b for Python strings over TagChars
RECURSIVE LexLess(_, _)
LexLess(a, b) ==
    IF b = <<>> THEN FALSE
    ELSE IF a = <<>> THEN TRUE
    ELSE IF Head(a) = Head(b) THEN LexLess(Tail(a), Tail(b))
    ELSE Ord(Head(a)) < Ord(Head(b))

(***************************** configuration *******************************)
TAG_REPLACEMENT_SENT == <<"replacement_sent", <<>>>>
TRACKING_SENT_PREFIX == "tracking_sent_"
DRAFT_TAG == <<"chat_suggested_draft", <<>>>>
\* the variables validate_env requires
REQUIRED_ENV == {"ZENDESK_SUBDOMAIN", "ZENDESK_EMAIL", "ZENDESK_API_TOKEN",
                 "OPENAI_API_KEY", "Z_TRACKING_FIELD"}
SIGNATURE_NAME == Strip(env.SIGNATURE_NAME)
NoTag == <<"", <<>>>>

Requester == "requester"
Agent == "agent"
Bot == "bot"

GuardTag(key) == <<TRACKING_SENT_PREFIX, key>>
IsGuard(t) == t[1] = TRACKING_SENT_PREFIX
Guards(tags) == {t \in tags : IsGuard(t)}

\* One outcome per collaborator call a step can make: TRUE = the call succeeds.
Calls == {"list", "fetch", "user", "comments", "post", "eget", "eput",
          "rget", "rput", "status", "note"}
Flags == [Calls -> BOOLEAN]
AllOk == [c \in Calls |-> TRUE]

(***************************** tag utilities *******************************)
\* get_ticket_tags: the stored tags, or [] when the read fails
get_ticket_tags(tags, getOk) == IF getOk THEN tags ELSE {}

\* ensure_tags with the merge forgotten: it writes back the tags it read
ensure_tags_unmerged(tags, new_tags, getOk, putOk) ==
    IF putOk THEN get_ticket_tags(tags, getOk) ELSE tags

\* ensure_tags: the stored tags after the call (a failed PUT is swallowed)
ensure_tags(tags, new_tags, getOk, putOk) ==
    LET existing == get_ticket_tags(tags, getOk)
        merged == existing \cup new_tags
    IN  IF putOk THEN merged ELSE tags

\* remove_tags with the filter forgotten: it writes back the tags it read
remove_tags_unfiltered(tags, tags_to_remove, getOk, putOk) ==
    IF tags_to_remove = {} THEN tags
    ELSE IF putOk THEN get_ticket_tags(tags, getOk) ELSE tags

\* remove_tags: the stored tags after the call
remove_tags(tags, tags_to_remove, getOk, putOk) ==
    IF tags_to_remove = {} THEN tags
    ELSE LET existing == get_ticket_tags(tags, getOk)
             target == existing \ tags_to_remove
         IN  IF putOk THEN target ELSE tags

\* get_user_first_name: the requester is called Ann; "there" when the lookup fails
get_user_first_name(userOk) == IF userOk THEN <<"A","n","n">> ELSE <<"t","h","e","r","e">>

\* get_custom_field_value returning the value as it is stored, not stripped
get_custom_field_value_unstripped(ticket) == ticket.tracking

\* get_custom_field_value: <<>> stands for None (absent, null or empty field),
\* which the only caller treats like the empty string
get_custom_field_value(ticket) ==
    IF ticket.tracking # <<>> THEN Strip(ticket.tracking) ELSE <<>>

(***************************** tracking helpers ****************************)
\* The tag list is kept sorted (ensure_tags, remove_tags write sorted(...)),
\* so the first guard found is the least one.
current_sent_tracking_tag(tags) ==
    IF Guards(tags) = {} THEN NoTag
    ELSE CHOOSE g \in Guards(tags) :
             \A h \in Guards(tags) : h = g \/ LexLess(g[2], h[2])

IsKept(c) == IsTagChar(c)
normalize_tag(s) == SelectSeq(LowerStr(s), IsKept)

PublicIdx(comments) == {i \in 1..Len(comments) : comments[i].public}

\* last_public_comment_contains_tracking looking for the key in the body as it
\* was written (the body not normalized)
last_public_comment_contains_tracking_raw(comments, tracking) ==
    IF PublicIdx(comments) = {} THEN FALSE
    ELSE LET i == CHOOSE j \in PublicIdx(comments) : \A k \in PublicIdx(comments) : k <= j
         IN  Contains(comments[i].body, normalize_tag(tracking))

last_public_comment_contains_tracking(comments, tracking) ==
    IF PublicIdx(comments) = {} THEN FALSE
    ELSE LET i == CHOOSE j \in PublicIdx(comments) : \A k \in PublicIdx(comments) : k <= j
             body == comments[i].body
             key == normalize_tag(tracking)
         IN  \/ Contains(normalize_tag(body), key)
             \/ Contains(normalize_tag(body), <<"n","u","m","s","=">> \o normalize_tag(tracking))

\* The fixed prose of both messages is abbreviated; the tracking value stands
\* where the templates put it: once in the text and once at the end of the link.
build_public_tracking_message(tracking, first_name) ==
    <<"H","i"," ">> \o first_name \o <<"!"," ">> \o tracking
        \o <<" ","#","n","u","m","s","=">> \o tracking \o <<" ">> \o SIGNATURE_NAME

build_public_tracking_correction_message(tracking, first_name) ==
    <<"H","i"," ">> \o first_name \o <<"!"," ","D","i","s","r","e","g","a","r","d",":"," ">> \o tracking
        \o <<" ","#","n","u","m","s","=">> \o tracking \o <<" ">> \o SIGNATURE_NAME

\* PUT /tickets/{id}.json with a comment: the comment is appended, the
\* additional_tags are added and the status, when given, is set
PutComment(ticket, public, body, tags, set_status) ==
    [ticket EXCEPT
        !.comments = Append(@, [public |-> public, author_id |-> Bot, body |-> body,
                                  attachments |-> <<>>]),
        !.tags = @ \cup tags,
        !.status = IF set_status # "" THEN set_status ELSE @]

\* add_public_reply_and_tags leaving set_status out of the payload
add_public_reply_and_tags_no_status(ticket, body, tags, set_status) ==
    PutComment(ticket, TRUE, body, tags, "")

add_public_reply_and_tags(ticket, body, tags, set_status) ==
    PutComment(ticket, TRUE, body, tags, set_status)

\* add_internal_note_and_tags with the comment's public flag set
add_internal_note_and_tags_public(ticket, note, tags) ==
    PutComment(ticket, TRUE, note, tags, "")

add_internal_note_and_tags(ticket, note, tags) ==
    PutComment(ticket, FALSE, note, tags, "")

\* What one call of handle_tracking_if_any does to the ticket it was given:
\* tk the ticket afterwards, ret the value returned, posted the public message
\* sent, raised whether an exception left the function, ok whether every
\* collaborator call it made succeeded.
TrackResult(tk, ret, posted, raised, ok) ==
    [tk |-> tk, ret |-> ret, posted |-> posted, raised |-> raised, ok |-> ok]

\* handle_tracking_if_any without the test of the new guard tag before a correction
handle_tracking_if_any_guard_untested(ticket, f) ==
    LET first_name == get_user_first_name(f["user"])
        tags == ticket.tags
        current_tracking == get_custom_field_value(ticket)
        current_guard == GuardTag(normalize_tag(current_tracking))
        existing_guard == current_sent_tracking_tag(tags)
        comments == ticket.comments
        both == {TAG_REPLACEMENT_SENT, current_guard}
        Ensured(t) == [t EXCEPT !.tags = ensure_tags(@, both, f["eget"], f["eput"])]
        Removed(t) == [t EXCEPT !.tags = remove_tags(@, {existing_guard}, f["rget"], f["rput"])]
        Solved(t) == [t EXCEPT !.status = IF f["status"] THEN "solved" ELSE @]
        eOk == f["eget"] /\ f["eput"]
        rOk == f["rget"] /\ f["rput"]
    IN
    IF current_tracking = <<>>
    THEN TrackResult(ticket, FALSE, "none", FALSE, f["user"])
    ELSE IF ~f["comments"]
    THEN TrackResult(ticket, FALSE, "none", TRUE, FALSE)
    ELSE IF existing_guard # NoTag /\ existing_guard # current_guard
    THEN IF last_public_comment_contains_tracking(comments, current_tracking)
         THEN TrackResult(Solved(Removed(Ensured(ticket))), TRUE, "none", FALSE,
                          f["user"] /\ eOk /\ rOk /\ f["status"])
         ELSE IF ~f["post"]
         THEN TrackResult(ticket, FALSE, "none", TRUE, FALSE)
         ELSE TrackResult(
                  Removed(Ensured(add_public_reply_and_tags(ticket,
                      build_public_tracking_correction_message(current_tracking, first_name),
                      both, "solved"))),
                  TRUE, "correction", FALSE, f["user"] /\ eOk /\ rOk)
    ELSE IF existing_guard = current_guard
    THEN TrackResult(ticket, FALSE, "none", FALSE, f["user"])
    ELSE IF last_public_comment_contains_tracking(comments, current_tracking)
    THEN TrackResult(Solved(Ensured(ticket)), TRUE, "none", FALSE,
                     f["user"] /\ eOk /\ f["status"])
    ELSE IF ~f["post"]
    THEN TrackResult(ticket, FALSE, "none", TRUE, FALSE)
    ELSE TrackResult(
             Ensured(add_public_reply_and_tags(ticket,
                 build_public_tracking_message(current_tracking, first_name),
                 both, "solved")),
             TRUE, "announcement", FALSE, f["user"] /\ eOk)

handle_tracking_if_any(ticket, f) ==
    LET first_name == get_user_first_name(f["user"])
        tags == ticket.tags
        current_tracking == get_custom_field_value(ticket)
        current_guard == GuardTag(normalize_tag(current_tracking))
        existing_guard == current_sent_tracking_tag(tags)
        comments == ticket.comments
        both == {TAG_REPLACEMENT_SENT, current_guard}
        Ensured(t) == [t EXCEPT !.tags = ensure_tags(@, both, f["eget"], f["eput"])]
        Removed(t) == [t EXCEPT !.tags = remove_tags(@, {existing_guard}, f["rget"], f["rput"])]
        Solved(t) == [t EXCEPT !.status = IF f["status"] THEN "solved" ELSE @]
        eOk == f["eget"] /\ f["eput"]
        rOk == f["rget"] /\ f["rput"]
    IN
    IF current_tracking = <<>>
    THEN TrackResult(ticket, FALSE, "none", FALSE, f["user"])
    ELSE IF ~f["comments"]
    THEN TrackResult(ticket, FALSE, "none", TRUE, FALSE)
    ELSE IF existing_guard # NoTag /\ existing_guard # current_guard
    THEN IF \/ current_guard \in tags
            \/ last_public_comment_contains_tracking(comments, current_tracking)
         THEN TrackResult(Solved(Removed(Ensured(ticket))), TRUE, "none", FALSE,
                          f["user"] /\ eOk /\ rOk /\ f["status"])
         ELSE IF ~f["post"]
         THEN TrackResult(ticket, FALSE, "none", TRUE, FALSE)
         ELSE TrackResult(
                  Removed(Ensured(add_public_reply_and_tags(ticket,
                      build_public_tracking_correction_message(current_tracking, first_name),
                      both, "solved"))),
                  TRUE, "correction", FALSE, f["user"] /\ eOk /\ rOk)
    ELSE IF existing_guard = current_guard
    THEN TrackResult(ticket, FALSE, "none", FALSE, f["user"])
    ELSE IF last_public_comment_contains_tracking(comments, current_tracking)
    THEN TrackResult(Solved(Ensured(ticket)), TRUE, "none", FALSE,
                     f["user"] /\ eOk /\ f["status"])
    ELSE IF ~f["post"]
    THEN TrackResult(ticket, FALSE, "none", TRUE, FALSE)
    ELSE TrackResult(
             Ensured(add_public_reply_and_tags(ticket,
                 build_public_tracking_message(current_tracking, first_name),
                 both, "solved")),
             TRUE, "announcement", FALSE, f["user"] /\ eOk)

(***************************** origin **************************************)
SHOPIFY_CONTACT_PHRASE ==
    <<"y","o","u"," ","r","e","c","e","i","v","e","d"," ","a"," ","n","e","w"," ","m","e","s","s","a","g","e"," ","f","r","o","m"," ","y","o","u","r"," ","o","n","l","i","n","e"," ","s","t","o","r","e","'","s"," ","c","o","n","t","a","c","t"," ","f","o","r","m">>
AMAZON_SUBJECT_TOKENS == {<<"f","r","e","e"," ","r","e","p","l","a","c","e","m","e","n","t"," ","f","o","r"," ","m","y"," ","a","m","a","z","o","n"," ","p","u","r","c","h","a","s","e">>}

safe_lower(s) == LowerStr(Strip(s))

Digits == {"0","1","2","3","4","5","6","7","8","9"}

\* ORDER_PAT = \b\d{3}-\d{7}-\d{7}\b matches at offset i of lower-case text t
OrderAt(t, i) ==
    /\ t[i + 4] = "-"
    /\ t[i + 12] = "-"
    /\ \A k \in (1..19) \ {4, 12} : t[i + k] \in Digits
    /\ i = 0 \/ ~IsTagChar(t[i])
    /\ i + 19 = Len(t) \/ ~IsTagChar(t[i + 20])

ORDER_PAT_search(t) == \E i \in 0..(Len(t) - 19) : OrderAt(t, i)

\* " ".join(bodies)
RECURSIVE JoinBodies(_)
JoinBodies(comments) ==
    IF comments = <<>> THEN <<>>
    ELSE IF Len(comments) = 1 THEN comments[1].body
    ELSE comments[1].body \o <<" ">> \o JoinBodies(Tail(comments))

\* classify_origin looking at the marketplace before the storefront
classify_origin_amazon_first(ticket, comments) ==
    LET rel == safe_lower(ticket.via_rel)
        subject == safe_lower(ticket.subject)
        thread_text == LowerStr(JoinBodies(comments))
    IN  IF \E tok \in AMAZON_SUBJECT_TOKENS : Contains(subject, tok) THEN "amazon_qr"
        ELSE IF ORDER_PAT_search(thread_text) THEN "amazon_qr"
        ELSE IF rel = <<"s","h","o","p","i","f","y">> THEN "shopify"
        ELSE IF Contains(thread_text, SHOPIFY_CONTACT_PHRASE) THEN "shopify"
        ELSE "generic_email"

classify_origin(ticket, comments) ==
    LET rel == safe_lower(ticket.via_rel)
        subject == safe_lower(ticket.subject)
        thread_text == LowerStr(JoinBodies(comments))
    IN  IF rel = <<"s","h","o","p","i","f","y">> THEN "shopify"
        ELSE IF Contains(thread_text, SHOPIFY_CONTACT_PHRASE) THEN "shopify"
        ELSE IF \E tok \in AMAZON_SUBJECT_TOKENS : Contains(subject, tok) THEN "amazon_qr"
        ELSE IF ORDER_PAT_search(thread_text) THEN "amazon_qr"
        ELSE "generic_email"

\* tag_origin: the stored tags after the call
tag_origin(tags, origin, getOk, putOk) ==
    IF origin = "shopify" THEN ensure_tags(tags, {<<"source_shopify_form", <<>>>>}, getOk, putOk)
    ELSE IF origin = "amazon_qr" THEN ensure_tags(tags, {<<"source_amazon_qr", <<>>>>}, getOk, putOk)
    ELSE ensure_tags(tags, {<<"source_generic_email", <<>>>>}, getOk, putOk)

(***************************** text heuristics *****************************)
\* The patterns of the source are matched on ASCII text: the typographic
\* apostrophe of the source is written ^ , its dash - and its multiplication
\* sign * ; vocabulary entries with accented letters are left out.

\* \w
IsWordChar(c) == IsTagChar(Lower(c))
\* \b at offset i of t (between t[i] and t[i + 1])
Bnd(t, i) ==
    (i > 0 /\ IsWordChar(t[i])) # (i < Len(t) /\ IsWordChar(t[i + 1]))

\* w stands in t right after offset i
MatchAt(t, i, w) ==
    /\ i + Len(w) <= Len(t)
    /\ \A k \in 1..Len(w) : t[i + k] = w[k]

\* A pattern is matched by sets of offsets: from the offsets S where the match
\* may stand, the offsets where it may stand after the next piece.
Lit(t, S, w) == {i + Len(w) : i \in {j \in S : MatchAt(t, j, w)}}
Alt(t, S, ws) == UNION {Lit(t, S, w) : w \in ws}
\* \s*
Spaces0(t, S) ==
    {j \in 0..Len(t) : \E i \in S : i <= j /\ \A k \in (i + 1)..j : IsSpace(t[k])}
\* \s+
Spaces1(t, S) ==
    {j \in 0..Len(t) : \E i \in S : i < j /\ \A k \in (i + 1)..j : IsSpace(t[k])}
\* .*
Any0(t, S) ==
    {j \in 0..Len(t) : \E i \in S : i <= j /\ \A k \in (i + 1)..j : t[k] # "\n"}
\* \b
AtBnd(t, S) == {i \in S : Bnd(t, i)}
\* the offsets a search may start from
AllPos(t) == 0..Len(t)

\* has_word: \bword\b found in text, letter case ignored
has_word(text, word) ==
    LET t == LowerStr(text)
    IN  \E i \in 0..(Len(t) - Len(word)) :
            MatchAt(t, i, word) /\ Bnd(t, i) /\ Bnd(t, i + Len(word))

contains_any_word(text, vocab) == \E w \in vocab : has_word(text, w)

\* contains_any: a word of vocab is a substring of the text in lower case
contains_any(text, vocab) == \E w \in vocab : Contains(LowerStr(text), w)

COLOR_WORDS ==
    {<<"b","l","a","c","k">>, <<"w","h","i","t","e">>, <<"b","r","o","w","n">>, <<"d","a","r","k"," ","b","r","o","w","n">>, <<"b","e","i","g","e">>, <<"s","i","e","n","n","a">>, <<"r","e","d">>, <<"b","l","u","e">>,
     <<"n","a","v","y">>, <<"t","a","n">>, <<"c","a","m","e","l">>, <<"c","r","e","a","m">>, <<"i","v","o","r","y">>, <<"p","i","n","k">>, <<"g","r","e","e","n">>, <<"g","r","e","y">>, <<"g","r","a","y">>,
     <<"c","h","o","c","o","l","a","t","e">>, <<"g","o","l","d">>, <<"s","i","l","v","e","r">>}
CHAIN_WORDS == {<<"c","h","a","i","n">>, <<"s","t","r","a","p">>, <<"s","h","o","u","l","d","e","r"," ","s","t","r","a","p">>, <<"t","r","a","c","o","l","l","a">>, <<"c","a","t","e","n","a">>, <<"b","e","l","t">>}
SHORT_WORDS == {<<"s","h","o","r","t">>, <<"t","o","o"," ","s","h","o","r","t">>, <<"s","h","o","r","t","e","r">>, <<"p","i","u"," ","c","o","r","t","a">>}
LONG_WORDS == {<<"l","o","n","g">>, <<"t","o","o"," ","l","o","n","g">>, <<"l","o","n","g","e","r">>, <<"p","i","u"," ","l","u","n","g","a">>}
SIZE_WORDS_BASE ==
    {<<"m","i","n","i">>, <<"s","m","a","l","l">>, <<"m","e","d","i","u","m">>, <<"l","a","r","g","e">>, <<"x","l">>, <<"v","a","n","i","t","y">>, <<"p","m">>, <<"g","m">>, <<"b","b">>, <<"n","a","n","o">>, <<"m","i","c","r","o">>}
PRE_SALE_MATERIAL_TRIGGERS ==
    {<<"t","h","i","n","n","e","r">>, <<"t","h","i","n">>, <<"s","o","t","t","i","l","e">>, <<"s","i","l","k">>, <<"n","y","l","o","n">>, <<"f","e","l","t">>, <<"m","a","t","e","r","i","a","l">>, <<"s","o","f","t">>,
     <<"m","o","r","b","i","d","o">>, <<"r","i","g","i","d","o">>, <<"s","t","i","f","f">>}
PRE_SALE_CUSTOM_TRIGGERS ==
    {<<"c","u","s","t","o","m">>, <<" ","m","i","s","u","r","a">>, <<"m","i","s","u","r","e">>, <<"d","i","m","e","n","s","i","o","n">>, <<"s","i","z","e">>, <<"s","i","z","i","n","g">>, <<"f","i","t">>, <<"f","i","t","s">>,
     <<"s","u"," ","m","i","s","u","r","a">>, <<"t","a","i","l","o","r">>, <<"b","e","s","p","o","k","e">>}
POSITIVE_WORDS ==
    {<<"l","o","v","e">>, <<"f","a","v","o","u","r","i","t","e">>, <<"f","a","v","o","r","i","t","e">>, <<"a","m","a","z","i","n","g">>, <<"w","o","n","d","e","r","f","u","l">>, <<"b","e","s","t"," ","o","f"," ","a","l","l"," ","t","i","m","e">>,
     <<"i"," ","a","d","o","r","e">>, <<"g","r","a","z","i","e"," ","m","i","l","l","e">>, <<"t","h","a","n","k"," ","y","o","u"," ","s","o"," ","m","u","c","h">>, <<"y","o","u","r"," ","o","r","g","a","n","i","z","e","r","s"," ","a","r","e"," ","m","y"," ","f","a","v","o","r","i","t","e">>}

\* MM_TOKEN_REGEX = (?<![A-Za-z])mm(?![A-Za-z]), letter case ignored
IsLetter(c) == Lower(c) \in {TagChars[i] : i \in 12..37}
MM_TOKEN_REGEX_search(text) ==
    LET t == LowerStr(text)
    IN  \E i \in 0..(Len(t) - 2) :
            /\ MatchAt(t, i, <<"m","m">>)
            /\ i = 0 \/ ~IsLetter(t[i])
            /\ i + 2 = Len(t) \/ ~IsLetter(t[i + 3])

\* THANKS_RE, its alternatives written out
THANKS_WORDS ==
    {<<"t","h","a","n","k">>, <<"t","h","a","n","k"," ","y","o","u">>, <<"t","h","a","n","k","s">>, <<"a","p","p","r","e","c","i","a","t","e">>, <<"g","r","a","t","e","f","u","l">>, <<"m","a","n","y"," ","t","h","a","n","k","s">>,
     <<"s","o"," ","h","a","p","p","y">>, <<"h","a","p","p","y"," ","t","o"," ","h","e","a","r">>, <<"i","t"," ","f","i","t","s">>, <<"i","t"," ","f","i","t","s"," ","p","e","r","f","e","c","t","l","y">>, <<"f","i","t","s"," ","p","e","r","f","e","c","t","l","y">>,
     <<"w","o","r","k","s"," ","g","r","e","a","t">>, <<"r","e","c","e","i","v","e","d"," ","r","e","p","l","a","c","e","m","e","n","t">>, <<"r","e","c","e","i","v","e","d"," ","t","h","e"," ","r","e","p","l","a","c","e","m","e","n","t">>}
THANKS_RE_search(t) == contains_any_word(t, THANKS_WORDS)

\* THANKS_EXCEPTION_RE = \b(would like|want|wanted|just want)\s+to\s+thank\b
THANKS_EXCEPTION_RE_search(t) ==
    LET s1 == Alt(t, AtBnd(t, AllPos(t)), {<<"w","o","u","l","d"," ","l","i","k","e">>, <<"w","a","n","t">>, <<"w","a","n","t","e","d">>, <<"j","u","s","t"," ","w","a","n","t">>})
        s2 == Lit(t, Spaces1(t, s1), <<"t","o">>)
        s3 == Lit(t, Spaces1(t, s2), <<"t","h","a","n","k">>)
    IN  AtBnd(t, s3) # {}

\* REQUEST_CUES_RE, its alternatives written out
REQUEST_CUES ==
    {<<"n","e","e","d">>, <<"n","e","e","d","s">>, <<"n","e","e","d"," ","t","o">>, <<"w","a","n","t">>, <<"w","o","u","l","d"," ","l","i","k","e">>, <<"i","'","d"," ","l","i","k","e">>, <<"c","a","n"," ","y","o","u">>,
     <<"c","o","u","l","d"," ","y","o","u">>, <<"p","l","e","a","s","e"," ","s","e","n","d">>, <<"p","l","e","a","s","e"," ","s","h","i","p">>, <<"p","l","e","a","s","e"," ","e","x","c","h","a","n","g","e">>, <<"p","l","e","a","s","e"," ","r","e","p","l","a","c","e">>,
     <<"r","e","p","l","a","c","e">>, <<"e","x","c","h","a","n","g","e">>, <<"r","e","t","u","r","n">>, <<"r","e","f","u","n","d">>, <<"s","m","a","l","l","e","r">>, <<"l","a","r","g","e","r">>, <<"d","i","f","f","e","r","e","n","t">>,
     <<"a","n","o","t","h","e","r">>, <<"s","e","n","d">>, <<"s","h","i","p">>, <<"a","r","r","a","n","g","e">>, <<"h","e","l","p">>}
REQUEST_CUES_RE_search(t) == contains_any_word(t, REQUEST_CUES)

\* NEGATIVE_CUES_RE, its alternatives written out
NEGATIVE_CUES ==
    {<<"t","o","o"," ","s","m","a","l","l">>, <<"t","o","o"," ","b","i","g">>, <<"p","i","n","c","h","e","d">>, <<"d","o","e","s","n","'","t"," ","f","i","t">>, <<"d","o","e","s","n","t"," ","f","i","t">>, <<"d","o","e","s"," ","n","o","t"," ","f","i","t">>,
     <<"d","i","d","n"," ","f","i","t">>, <<"d","i","d","n","'"," ","f","i","t">>, <<"d","i","d"," ","n","o","t"," ","f","i","t">>, <<"w","r","o","n","g">>, <<"i","n","c","o","r","r","e","c","t">>, <<"i","s","s","u","e">>,
     <<"p","r","o","b","l","e","m">>, <<"d","a","m","a","g","e","d">>, <<"b","r","o","k","e","n">>, <<"f","a","u","l","t","y">>}
NEGATIVE_CUES_RE_search(t) == contains_any_word(t, NEGATIVE_CUES)

\* is_pure_thanks without the test of the question mark
is_pure_thanks_any_punctuation(text) ==
    LET t == LowerStr(Strip(text))
        has_request == IF THANKS_EXCEPTION_RE_search(t) THEN FALSE
                       ELSE REQUEST_CUES_RE_search(t)
    IN  /\ t # <<>>
        /\ THANKS_RE_search(t)
        /\ ~has_request
        /\ ~NEGATIVE_CUES_RE_search(t)

is_pure_thanks(text) ==
    LET t == LowerStr(Strip(text))
        has_request == IF THANKS_EXCEPTION_RE_search(t) THEN FALSE
                       ELSE REQUEST_CUES_RE_search(t)
    IN  /\ t # <<>>
        /\ THANKS_RE_search(t)
        /\ ~has_request
        /\ ~Contains(t, <<"?">>)
        /\ ~NEGATIVE_CUES_RE_search(t)

\* URL_PAT = https?://[^\s)>\]]+ , letter case ignored
has_link(text) ==
    LET t == LowerStr(text)
        s1 == Lit(t, AllPos(t), <<"h","t","t","p">>)
        s2 == Lit(t, s1 \cup Lit(t, s1, <<"s">>), <<":","/","/">>)
    IN  \E i \in s2 : i < Len(t) /\ ~IsSpace(t[i + 1]) /\ t[i + 1] \notin {")", ">", "]"}

\* str.replace(old, ""): every occurrence of old removed, left to right
RECURSIVE Without(_, _)
Without(t, old) ==
    IF Len(t) < Len(old) THEN t
    ELSE IF MatchAt(t, 0, old) THEN Without(SubSeq(t, Len(old) + 1, Len(t)), old)
    ELSE <<Head(t)>> \o Without(Tail(t), old)

\* \d{1,2}(\.\d{1,2})?
Digits12(t, S) ==
    LET d1 == {i + 1 : i \in {j \in S : j < Len(t) /\ t[j + 1] \in Digits}}
    IN  d1 \cup {i + 1 : i \in {j \in d1 : j < Len(t) /\ t[j + 1] \in Digits}}
Number(t, S) ==
    LET n == Digits12(t, S) IN n \cup Digits12(t, Lit(t, n, <<".">>))
\* \s*[x*]\s*
Times(t, S) == Spaces0(t, Alt(t, Spaces0(t, S), {<<"x">>, <<"*">>}))

\* MEASURES_PAT, searched in the text without "inches" and "inch"
has_measurements(text) ==
    LET t == LowerStr(Without(Without(text, <<"i","n","c","h","e","s">>), <<"i","n","c","h">>))
        a == Number(t, AtBnd(t, AllPos(t)))
        b == Number(t, Times(t, a))
        c == Number(t, Times(t, b))
    IN  AtBnd(t, c) # {}

\* a comment carries an attachment whose content type starts with image/ or
\* application/pdf
\* A comment holds the content types of its attachments, one per attachment:
\* a text, the empty text for an attachment without the key, or None for a
\* null.
None == <<"None">>
IsPhoto(content_type) ==
    MatchAt(content_type, 0, <<"i","m","a","g","e","/">>) \/ MatchAt(content_type, 0, <<"a","p","p","l","i","c","a","t","i","o","n","/","p","d","f">>)

\* the content types the loop of thread_has_any_photo goes through, in order
RECURSIVE ContentTypes(_)
ContentTypes(comments) ==
    IF comments = <<>> THEN <<>>
    ELSE Head(comments).attachments \o ContentTypes(Tail(comments))

\* the loop reaches a null before it returns: None has no startswith
RaisesOn(types) ==
    \E i \in 1..Len(types) :
        /\ types[i] = None
        /\ \A j \in 1..(i - 1) : ~IsPhoto(types[j])

message_has_photo_raises(comment) == RaisesOn(comment.attachments)
message_has_photo(comment) ==
    \E i \in 1..Len(comment.attachments) : IsPhoto(comment.attachments[i])

thread_has_any_photo_raises(comments) == RaisesOn(ContentTypes(comments))
thread_has_any_photo(comments) ==
    \E i \in 1..Len(ContentTypes(comments)) : IsPhoto(ContentTypes(comments)[i])

\* extract_order_number: whether a number is found
extract_order_number(text) == ORDER_PAT_search(LowerStr(text))

\* detect_chain_case testing the shorter-qualifier before the longer one
detect_chain_case_short_first(text) ==
    LET t == LowerStr(text)
    IN  IF ~contains_any_word(t, CHAIN_WORDS) THEN [type |-> "none"]
        ELSE IF contains_any_word(t, SHORT_WORDS) THEN [type |-> "length", which |-> "shorter"]
        ELSE IF contains_any_word(t, LONG_WORDS) THEN [type |-> "length", which |-> "longer"]
        ELSE IF has_word(t, <<"g","o","l","d">>) \/ has_word(t, <<"o","r","o">>) THEN [type |-> "color", color |-> "gold"]
        ELSE IF has_word(t, <<"s","i","l","v","e","r">>) \/ has_word(t, <<"a","r","g","e","n","t","o">>)
        THEN [type |-> "color", color |-> "silver"]
        ELSE [type |-> "generic"]

detect_chain_case(text) ==
    LET t == LowerStr(text)
    IN  IF ~contains_any_word(t, CHAIN_WORDS) THEN [type |-> "none"]
        ELSE IF contains_any_word(t, LONG_WORDS) THEN [type |-> "length", which |-> "longer"]
        ELSE IF contains_any_word(t, SHORT_WORDS) THEN [type |-> "length", which |-> "shorter"]
        ELSE IF has_word(t, <<"g","o","l","d">>) \/ has_word(t, <<"o","r","o">>) THEN [type |-> "color", color |-> "gold"]
        ELSE IF has_word(t, <<"s","i","l","v","e","r">>) \/ has_word(t, <<"a","r","g","e","n","t","o">>)
        THEN [type |-> "color", color |-> "silver"]
        ELSE [type |-> "generic"]

text_has_size_word_strict(t) ==
    contains_any_word(t, SIZE_WORDS_BASE) \/ MM_TOKEN_REGEX_search(t)

EXPLICIT_TRIGGERS ==
    {<<"i"," ","w","a","n","t">>, <<"p","l","e","a","s","e"," ","s","e","n","d">>, <<"r","e","p","l","a","c","e">>, <<"i"," ","w","o","u","l","d"," ","r","a","t","h","e","r"," ","h","a","v","e">>, <<"i","n","s","t","e","a","d">>,
     <<"c","a","n"," ","y","o","u"," ","s","e","n","d">>, <<"p","l","e","a","s","e"," ","s","h","i","p">>, <<"i"," ","p","r","e","f","e","r">>, <<"i","'","d"," ","l","i","k","e">>, <<"i"," ","w","o","u","l","d"," ","l","i","k","e">>}

is_explicit_request(text) ==
    LET t == LowerStr(text)
    IN  /\ text # <<>>
        /\ \E k \in EXPLICIT_TRIGGERS : Contains(t, k)
        /\ \/ text_has_size_word_strict(t)
           \/ contains_any_word(t, COLOR_WORDS)
           \/ contains_any_word(t, CHAIN_WORDS)

has_compliment(text) == contains_any(text, POSITIVE_WORDS)

(***************************** reviews, returns ****************************)
\* \b(review|feedback|rating|5\s*stars?)\b
ReviewNoun(t, S) ==
    LET s == AtBnd(t, S)
        star == Lit(t, Spaces0(t, Lit(t, s, <<"5">>)), <<"s","t","a","r">>)
    IN  AtBnd(t, Alt(t, s, {<<"r","e","v","i","e","w">>, <<"f","e","e","d","b","a","c","k">>, <<"r","a","t","i","n","g">>}) \cup star \cup Lit(t, star, <<"s">>))

REVIEW_VERBS_PAST ==
    {<<"l","e","f","t">>, <<"p","o","s","t","e","d">>, <<"w","r","o","t","e">>, <<"s","u","b","m","i","t","t","e","d">>, <<"g","a","v","e">>, <<"m","a","d","e">>, <<"s","e","n","t">>, <<"s","h","a","r","e","d">>, <<"u","p","l","o","a","d","e","d">>}
REVIEW_VERBS ==
    {<<"l","e","a","v","e">>, <<"w","r","i","t","e">>, <<"p","o","s","t">>, <<"s","u","b","m","i","t">>, <<"m","a","k","e">>, <<"g","i","v","e">>, <<"s","e","n","d">>, <<"s","h","a","r","e">>, <<"u","p","l","o","a","d">>}

\* REVIEW_LEFT_RE, letter case ignored
REVIEW_LEFT_RE_search(text) ==
    LET t == LowerStr(text)
        s1 == Spaces0(t, Lit(t, AtBnd(t, AllPos(t)), <<"i">>))
        s2 == Spaces0(t, s1 \cup Alt(t, s1, {<<"h","a","v","e">>, <<"h","a","d">>, <<"j","u","s","t">>, <<"a","l","r","e","a","d","y">>}))
        s3 == AtBnd(t, Alt(t, s2, REVIEW_VERBS_PAST))
    IN  \/ ReviewNoun(t, Any0(t, s3)) # {}
        \/ AtBnd(t, Alt(t, s2, {<<"r","e","v","i","e","w","e","d">>, <<"r","a","t","e","d">>})) # {}
        \/ has_word(t, <<"t","h","a","n","k"," ","y","o","u"," ","f","o","r"," ","l","e","t","t","i","n","g"," ","m","e"," ","l","e","a","v","e"," ","a"," ","r","e","v","i","e","w">>)

\* REVIEW_FUTURE_RE, letter case ignored
REVIEW_FUTURE_RE_search(text) ==
    LET t == LowerStr(text)
        s1 == Spaces0(t, Lit(t, AtBnd(t, AllPos(t)), <<"i">>))
        s2 == Spaces0(t, Alt(t, s1, {<<"w","i","l","l">>, <<"a","m"," ","g","o","i","n","g"," ","t","o">>, <<"p","l","a","n"," ","t","o">>, <<"w","a","n","t"," ","t","o">>,
                                     <<"w","o","u","l","d"," ","l","i","k","e"," ","t","o">>, <<"i","n","t","e","n","d"," ","t","o">>}))
        s3 == AtBnd(t, Alt(t, s2, REVIEW_VERBS))
        p1 == Spaces0(t, Lit(t, AtBnd(t, AllPos(t)), <<"i","^","l","l">>))
        p2 == Spaces0(t, Alt(t, p1, {<<"w","r","i","t","e">>, <<"p","o","s","t">>, <<"l","e","a","v","e">>, <<"g","i","v","e">>}))
        p3 == p2 \cup Spaces1(t, Spaces1(t, Lit(t, p2, <<"y","o","u">>)))
        p4 == Spaces0(t, p3 \cup Alt(t, p3, {<<"n","i","c","e">>, <<"g","o","o","d">>}))
    IN  \/ ReviewNoun(t, Any0(t, s3)) # {}
        \/ AtBnd(t, Alt(t, p4, {<<"r","e","v","i","e","w">>, <<"f","e","e","d","b","a","c","k">>, <<"r","a","t","i","n","g">>})) # {}

\* REVIEW_CONDITIONAL_RE, letter case ignored
REVIEW_CONDITIONAL_RE_search(text) ==
    LET t == LowerStr(text)
        c1 == Spaces0(t, Spaces1(t, Lit(t, AtBnd(t, AllPos(t)), <<"i","f">>)))
        c2 == AtBnd(t, Alt(t, c1, REVIEW_VERBS))
    IN  ReviewNoun(t, Any0(t, c2)) # {}

\* RETURN_REQUEST_RE, its alternatives written out
RETURN_REQUESTS ==
    {<<"d","o"," ","i"," ","n","e","e","d"," ","t","o"," ","r","e","t","u","r","n">>, <<"d","o"," ","i"," ","n","e","e","d"," ","t","o"," ","s","e","n","d"," ","b","a","c","k">>, <<"d","o"," ","i"," ","n","e","e","d"," ","t","o"," ","s","h","i","p"," ","b","a","c","k">>,
     <<"d","o"," ","i"," ","n","e","e","d"," ","t","o"," ","m","a","i","l"," ","b","a","c","k">>, <<"d","o"," ","i"," ","n","e","e","d"," ","t","o"," ","s","e","n","d"," ","t","h","i","s">>, <<"d","o"," ","i"," ","n","e","e","d"," ","t","o"," ","s","e","n","d"," ","i","t"," ","b","a","c","k">>,
     <<"s","h","o","u","l","d"," ","i"," ","r","e","t","u","r","n">>, <<"s","h","o","u","l","d"," ","i"," ","s","e","n","d"," ","b","a","c","k">>, <<"s","h","o","u","l","d"," ","i"," ","s","h","i","p"," ","b","a","c","k">>,
     <<"s","h","o","u","l","d"," ","i"," ","m","a","i","l"," ","t","h","i","s">>, <<"s","h","o","u","l","d"," ","i"," ","s","h","i","p"," ","t","h","i","s">>, <<"m","u","s","t"," ","i"," ","r","e","t","u","r","n">>,
     <<"d","o"," ","y","o","u"," ","n","e","e","d"," ","m","e"," ","t","o"," ","r","e","t","u","r","n">>, <<"d","o"," ","y","o","u"," ","n","e","e","d"," ","m","e"," ","t","o"," ","s","e","n","d"," ","i","t"," ","b","a","c","k">>,
     <<"n","e","e","d"," ","t","o"," ","r","e","t","u","r","n">>, <<"n","e","e","d"," ","t","o"," ","s","e","n","d"," ","b","a","c","k">>, <<"w","i","l","l"," ","y","o","u"," ","s","e","n","d"," ","a"," ","l","a","b","e","l">>,
     <<"w","i","l","l"," ","y","o","u"," ","n","e","e","d"," ","t","h","e"," ","o","l","d"," ","o","n","e"," ","b","a","c","k">>, <<"d","o"," ","y","o","u"," ","w","a","n","t"," ","m","e"," ","t","o"," ","s","e","n","d">>,
     <<"d","o"," ","y","o","u"," ","w","a","n","t"," ","m","e"," ","t","o"," ","r","e","t","u","r","n">>, <<"w","a","n","t"," ","m","e"," ","t","o"," ","r","e","t","u","r","n">>, <<"d","o"," ","y","o","u"," ","w","a","n","t"," ","i","t"," ","b","a","c","k">>,
     <<"s","e","n","d"," ","i","t"," ","b","a","c","k"," ","t","o"," ","y","o","u">>, <<"s","e","n","d"," ","t","h","i","s"," ","b","a","c","k"," ","t","o"," ","y","o","u">>, <<"s","e","n","d"," ","t","h","e"," ","o","l","d"," ","o","n","e">>,
     <<"r","e","t","u","r","n"," ","t","h","e"," ","o","l","d"," ","o","n","e">>}
RETURN_REQUEST_RE_search(text) == contains_any_word(text, RETURN_REQUESTS)

(***************************** names ***************************************)
\* body.splitlines()
RECURSIVE SplitLines(_)
SplitLines(s) ==
    IF s = <<>> THEN <<>>
    ELSE IF \A i \in 1..Len(s) : s[i] # "\n" THEN <<s>>
    ELSE LET n == CHOOSE i \in 1..Len(s) : s[i] = "\n" /\ \A j \in 1..(i - 1) : s[j] # "\n"
         IN  <<SubSeq(s, 1, n - 1)>> \o SplitLines(SubSeq(s, n + 1, Len(s)))

\* name.split()[0]
FirstWord(s) ==
    IF \A i \in 1..Len(s) : ~IsSpace(s[i]) THEN s
    ELSE LET n == CHOOSE i \in 1..Len(s) : IsSpace(s[i]) /\ \A j \in 1..(i - 1) : ~IsSpace(s[j])
         IN  SubSeq(s, 1, n - 1)

\* the first name a line "Name: ..." of the body gives, <<>> when none does
NameInBody(body) ==
    LET lines == SplitLines(body)
        NameOf(line) == IF MatchAt(LowerStr(line), 0, <<"n","a","m","e",":">>)
                        THEN FirstWord(Strip(SubSeq(line, 6, Len(line))))
                        ELSE <<>>
        named == {i \in 1..Len(lines) : NameOf(lines[i]) # <<>>}
    IN  IF named = {} THEN <<>>
        ELSE LET first == CHOOSE i \in named : \A j \in named : i <= j
             IN  NameOf(lines[first])

\* extract_first_name_from_shopify_body: <<>> stands for None
extract_first_name_from_shopify_body(comments) ==
    LET forms == {i \in 1..Len(comments) :
                      /\ Contains(LowerStr(comments[i].body), SHOPIFY_CONTACT_PHRASE)
                      /\ NameInBody(comments[i].body) # <<>>}
    IN  IF forms = {} THEN <<>>
        ELSE LET first == CHOOSE i \in forms : \A j \in forms : i <= j
             IN  NameInBody(comments[first].body)

(***************************** message builders ****************************)
\* The prose of the drafts is abbreviated; what a template draws from its
\* arguments, the no-return sentence and the signature stand where the
\* templates put them.
NO_RETURN_SENTENCE == <<"Y","o","u"," ","d","o","n","'","t"," ","n","e","e","d"," ","t","o"," ","r","e","t","u","r","n"," ","i","t",".">>

greeting(first_name) == <<"H","i"," ">> \o first_name \o <<",">>

build_chain_reply(case, first_name) ==
    IF case.type = "length"
    THEN greeting(first_name) \o <<" ","W","e","'","l","l"," ","s","e","n","d"," ","a"," ">>
             \o (IF case.which = "longer" THEN <<"l","o","n","g","e","r">> ELSE <<"s","h","o","r","t","e","r">>)
             \o <<" ","c","h","a","i","n"," ","r","i","g","h","t"," ","a","w","a","y","."," ">> \o NO_RETURN_SENTENCE
             \o <<" ","B","e","s","t"," ","r","e","g","a","r","d","s",","," ">> \o SIGNATURE_NAME
    ELSE IF case.type = "color"
    THEN greeting(first_name) \o <<" ","W","e","'","l","l"," ","s","e","n","d"," ","a"," ">>
             \o (IF case.color = "gold" THEN <<"g","o","l","d">> ELSE <<"s","i","l","v","e","r">>)
             \o <<" ","c","h","a","i","n"," ","a","s"," ","a"," ","r","e","p","l","a","c","e","m","e","n","t","."," ">> \o NO_RETURN_SENTENCE
             \o <<" ","B","e","s","t"," ","r","e","g","a","r","d","s",","," ">> \o SIGNATURE_NAME
    ELSE greeting(first_name) \o <<" ","W","e","'","l","l"," ","a","r","r","a","n","g","e"," ","a"," ","r","e","p","l","a","c","e","m","e","n","t"," ","a","c","c","o","r","d","i","n","g","l","y","."," ">>
             \o NO_RETURN_SENTENCE \o <<" ","B","e","s","t"," ","r","e","g","a","r","d","s",","," ">> \o SIGNATURE_NAME

\* ", ".join(words)
RECURSIVE JoinWords(_, _)
JoinWords(words, sep) ==
    IF words = <<>> THEN <<>>
    ELSE IF Len(words) = 1 THEN words[1]
    ELSE words[1] \o sep \o JoinWords(Tail(words), sep)

\* the keys of picks in order, each once, the first three of them
RECURSIVE FirstDistinct(_, _, _)
FirstDistinct(picks, out, n) ==
    IF picks = <<>> \/ Len(out) >= n THEN out
    ELSE IF \E i \in 1..Len(out) : out[i] = Head(picks)
    THEN FirstDistinct(Tail(picks), out, n)
    ELSE FirstDistinct(Tail(picks), Append(out, Head(picks)), n)

\* The order in which SIZE_WORDS_BASE, a set, is gone through is not specified;
\* the texts of the model hold at most one of its words.
SIZE_WORDS_ORDER ==
    <<<<"m","i","n","i">>, <<"s","m","a","l","l">>, <<"m","e","d","i","u","m">>, <<"l","a","r","g","e">>, <<"x","l">>, <<"v","a","n","i","t","y">>, <<"p","m">>, <<"g","m">>, <<"b","b">>, <<"n","a","n","o">>, <<"m","i","c","r","o">>>>
COLOR_WORDS_ORDER ==
    <<<<"d","a","r","k"," ","b","r","o","w","n">>, <<"b","r","o","w","n">>, <<"b","l","a","c","k">>, <<"w","h","i","t","e">>, <<"g","o","l","d">>, <<"s","i","l","v","e","r">>, <<"b","e","i","g","e">>, <<"s","i","e","n","n","a">>,
      <<"r","e","d">>, <<"b","l","u","e">>, <<"n","a","v","y">>, <<"t","a","n">>, <<"c","a","m","e","l">>, <<"c","r","e","a","m">>, <<"i","v","o","r","y">>, <<"p","i","n","k">>, <<"g","r","e","e","n">>,
      <<"g","r","e","y">>, <<"g","r","a","y">>, <<"c","h","o","c","o","l","a","t","e">>>>

\* summarize_keywords: the keywords found, before they are joined
summarize_keywords(text) ==
    LET t == LowerStr(text)
        Hit(w) == has_word(t, w)
        picks == SelectSeq(SIZE_WORDS_ORDER, Hit)
                 \o (IF MM_TOKEN_REGEX_search(t) THEN <<<<"M","M">>>> ELSE <<>>)
                 \o SelectSeq(COLOR_WORDS_ORDER, Hit)
                 \o (IF contains_any_word(t, CHAIN_WORDS) THEN <<<<"c","h","a","i","n">>>> ELSE <<>>)
                 \o (IF contains_any_word(t, LONG_WORDS) THEN <<<<"l","o","n","g","e","r">>>> ELSE <<>>)
                 \o (IF contains_any_word(t, SHORT_WORDS) THEN <<<<"s","h","o","r","t","e","r">>>> ELSE <<>>)
    IN  FirstDistinct(picks, <<>>, 3)

build_return_appendix == <<"N","o"," ","n","e","e","d"," ","t","o"," ","s","e","n","d"," ","t","h","e"," ","o","l","d"," ","o","n","e"," ","b","a","c","k","."," ">>

\* with_return: the return appendix is put before the sentence on the tracking
build_accept_replacement(first_name, echo, with_return) ==
    greeting(first_name) \o <<" ","W","e","'","l","l"," ","a","r","r","a","n","g","e"," ","a"," ","r","e","p","l","a","c","e","m","e","n","t"," ","r","i","g","h","t"," ","a","w","a","y">>
        \o (IF echo # <<>> THEN <<" ","(">> \o echo \o <<")">> ELSE <<>>) \o <<"."," ">>
        \o NO_RETURN_SENTENCE \o <<" ">>
        \o (IF with_return THEN build_return_appendix ELSE <<>>)
        \o <<"W","e","'","l","l"," ","s","h","a","r","e"," ","t","h","e"," ","t","r","a","c","k","i","n","g","."," ","B","e","s","t"," ","r","e","g","a","r","d","s",","," ">> \o SIGNATURE_NAME

ASK_MODEL_LINK == <<"t","h","e"," ","e","x","a","c","t"," ","m","o","d","e","l"," ","n","a","m","e"," ","o","f"," ","y","o","u","r"," ","b","a","g"," ","o","r"," ","a"," ","d","i","r","e","c","t"," ","l","i","n","k">>
THANKS_PHOTO == <<"T","h","a","n","k","s"," ","f","o","r"," ","t","h","e"," ","p","h","o","t","o","."," ">>

build_need_info(order_ask, first_name, need_model_link, order_present, photo_present) ==
    LET asks == (IF ~order_present THEN <<order_ask>> ELSE <<>>)
                \o (IF need_model_link THEN <<ASK_MODEL_LINK>> ELSE <<>>)
    IN  greeting(first_name) \o <<" ","C","o","u","l","d"," ","y","o","u"," ","p","l","e","a","s","e"," ","s","h","a","r","e"," ">> \o JoinWords(asks, <<" ","a","n","d"," ">>)
            \o <<"?"," ">> \o (IF photo_present THEN THANKS_PHOTO ELSE <<>>)
            \o NO_RETURN_SENTENCE \o <<" ","B","e","s","t"," ","r","e","g","a","r","d","s",","," ">> \o SIGNATURE_NAME

build_need_info_amazon(first_name, need_model_link, order_present, photo_present) ==
    build_need_info(<<"y","o","u","r"," ","A","m","a","z","o","n"," ","o","r","d","e","r"," ","n","u","m","b","e","r">>,
                    first_name, need_model_link, order_present, photo_present)

build_need_info_shopify(first_name, need_model_link, order_present, photo_present) ==
    build_need_info(<<"y","o","u","r"," ","S","h","o","p","i","f","y"," ","o","r","d","e","r"," ","n","u","m","b","e","r">>,
                    first_name, need_model_link, order_present, photo_present)

\* the request for information of compose_draft for the other origins
build_need_info_generic(first_name, photo_present) ==
    greeting(first_name) \o <<" ","C","o","u","l","d"," ","y","o","u"," ","p","l","e","a","s","e"," ","s","h","a","r","e"," ">> \o ASK_MODEL_LINK \o <<"?"," ">>
        \o (IF photo_present THEN THANKS_PHOTO ELSE <<>>)
        \o <<"F","e","e","l"," ","f","r","e","e"," ","t","o"," ","i","n","c","l","u","d","e"," ","y","o","u","r"," ","o","r","d","e","r"," ","n","u","m","b","e","r","."," ","B","e","s","t"," ","r","e","g","a","r","d","s",","," ">> \o SIGNATURE_NAME

\* bag_model = <<>> stands for None
build_shopify_materials(first_name, bag_model, with_thanks) ==
    greeting(first_name)
        \o (IF with_thanks THEN <<" ","T","h","a","n","k"," ","y","o","u"," ","f","o","r"," ","y","o","u","r"," ","k","i","n","d"," ","w","o","r","d","s","!"," ">> ELSE <<" ","T","h","a","n","k","s"," ","f","o","r"," ","y","o","u","r"," ","m","e","s","s","a","g","e","!"," ">>)
        \o (IF bag_model # <<>> THEN <<"F","o","r"," ","y","o","u","r"," ">> \o bag_model \o <<","," ">> ELSE <<"F","o","r"," ","y","o","u","r"," ","b","a","g",","," ">>)
        \o <<"w","e"," ","c","a","n"," ","c","r","a","f","t"," ","t","h","e"," ","o","r","g","a","n","i","z","e","r"," ","i","n"," ","s","i","l","k",","," ","n","y","l","o","n"," ","o","r"," ","f","e","l","t","."," ","B","e","s","t"," ","r","e","g","a","r","d","s",","," ">>
        \o SIGNATURE_NAME

build_shopify_custom_size(first_name) ==
    greeting(first_name) \o <<" ","C","u","s","t","o","m"," ","s","i","z","i","n","g"," ","i","s"," ","n","o"," ","p","r","o","b","l","e","m","."," ","B","e","s","t"," ","r","e","g","a","r","d","s",","," ">> \o SIGNATURE_NAME

build_shade_photo_request(first_name) ==
    greeting(first_name) \o <<" ","C","o","u","l","d"," ","y","o","u"," ","p","l","e","a","s","e"," ","s","e","n","d"," ","a"," ","q","u","i","c","k"," ","p","h","o","t","o","?"," ","T","h","a","n","k","s","!"," ","N","o","e">>

build_ack_review_request(first_name) ==
    <<"H","i"," ","a","g","a","i","n"," ">> \o first_name \o <<"!"," ","A"," ","q","u","i","c","k"," ","r","e","v","i","e","w","?"," ","W","a","r","m"," ","r","e","g","a","r","d","s",","," ">> \o SIGNATURE_NAME

build_return_only(first_name) ==
    greeting(first_name) \o <<" ","N","o"," ","n","e","e","d"," ","t","o"," ","s","e","n","d"," ","i","t"," ","b","a","c","k","."," ","W","i","s","h","i","n","g"," ","y","o","u"," ","a"," ","w","o","n","d","e","r","f","u","l"," ","d","a","y",","," ">>
        \o SIGNATURE_NAME

\* the two replies on reviews that compose_draft writes itself
review_left_reply(first_name) ==
    <<"T","h","a","n","k"," ","y","o","u"," ","s","o"," ","m","u","c","h"," ","f","o","r"," ","y","o","u","r"," ","s","u","p","p","o","r","t",","," ">> \o first_name \o <<"."," ","N","o","e">>
review_promised_reply(first_name) ==
    <<"T","h","a","t","'","s"," ","s","o"," ","k","i","n","d"," ","o","f"," ","y","o","u",","," ">> \o first_name \o <<"!"," ","N","o","e">>

(***************************** compose_draft *******************************)
\* " ".join(bodies + [subject])
ThreadText(ticket, comments) == JoinBodies(comments) \o <<" ">> \o ticket.subject

\* compose_draft deciding on an explicit request before the chain cases
draft_intent_explicit_first(ticket, comments) ==
    LET text == Strip(comments[Len(comments)].body)
        origin == classify_origin(ticket, comments)
        thread_text == ThreadText(ticket, comments)
        amazon_order_present == extract_order_number(thread_text)
        explicit == is_explicit_request(text)
    IN  IF is_pure_thanks(text) \/ is_pure_thanks(thread_text) THEN "PureThanks"
        ELSE IF REVIEW_LEFT_RE_search(text) /\ ~REVIEW_CONDITIONAL_RE_search(text)
        THEN "ReviewAlreadyLeft"
        ELSE IF REVIEW_FUTURE_RE_search(text) /\ ~REVIEW_CONDITIONAL_RE_search(text)
        THEN "ReviewPromised"
        ELSE IF explicit THEN "ExplicitReplacementRequest"
        ELSE IF detect_chain_case(text).type # "none" THEN "ChainCase"
        ELSE IF /\ origin = "shopify" /\ ~amazon_order_present
                /\ contains_any(text, PRE_SALE_MATERIAL_TRIGGERS)
        THEN "PreSaleMaterialInquiry"
        ELSE IF /\ origin = "shopify" /\ ~amazon_order_present
                /\ contains_any(text, PRE_SALE_CUSTOM_TRIGGERS)
        THEN "PreSaleCustomSizeInquiry"
        ELSE IF /\ Contains(LowerStr(text), <<"s","h","a","d","e">>) \/ Contains(LowerStr(text), <<"m","a","t","c","h">>)
                /\ ~thread_has_any_photo(comments)
        THEN "ShadeMatchInquiry"
        ELSE IF RETURN_REQUEST_RE_search(text) THEN "ReturnPolicyQuestion"
        ELSE "NeedMoreInfo"

\* compose_draft looking at the custom-size triggers before the material ones
draft_intent_custom_first(ticket, comments) ==
    LET text == Strip(comments[Len(comments)].body)
        origin == classify_origin(ticket, comments)
        thread_text == ThreadText(ticket, comments)
        amazon_order_present == extract_order_number(thread_text)
        explicit == is_explicit_request(text)
    IN  IF is_pure_thanks(text) \/ is_pure_thanks(thread_text) THEN "PureThanks"
        ELSE IF REVIEW_LEFT_RE_search(text) /\ ~REVIEW_CONDITIONAL_RE_search(text)
        THEN "ReviewAlreadyLeft"
        ELSE IF REVIEW_FUTURE_RE_search(text) /\ ~REVIEW_CONDITIONAL_RE_search(text)
        THEN "ReviewPromised"
        ELSE IF detect_chain_case(text).type # "none" THEN "ChainCase"
        ELSE IF /\ origin = "shopify" /\ ~amazon_order_present
                /\ contains_any(text, PRE_SALE_CUSTOM_TRIGGERS) /\ ~explicit
        THEN "PreSaleCustomSizeInquiry"
        ELSE IF /\ origin = "shopify" /\ ~amazon_order_present
                /\ contains_any(text, PRE_SALE_MATERIAL_TRIGGERS) /\ ~explicit
        THEN "PreSaleMaterialInquiry"
        ELSE IF /\ Contains(LowerStr(text), <<"s","h","a","d","e">>) \/ Contains(LowerStr(text), <<"m","a","t","c","h">>)
                /\ ~thread_has_any_photo(comments)
        THEN "ShadeMatchInquiry"
        ELSE IF explicit THEN "ExplicitReplacementRequest"
        ELSE IF RETURN_REQUEST_RE_search(text) THEN "ReturnPolicyQuestion"
        ELSE "NeedMoreInfo"

\* The branch of compose_draft that writes the draft, named as the intent it
\* stands for.
draft_intent(ticket, comments) ==
    LET text == Strip(comments[Len(comments)].body)
        origin == classify_origin(ticket, comments)
        thread_text == ThreadText(ticket, comments)
        amazon_order_present == extract_order_number(thread_text)
        explicit == is_explicit_request(text)
    IN  IF is_pure_thanks(text) \/ is_pure_thanks(thread_text) THEN "PureThanks"
        ELSE IF REVIEW_LEFT_RE_search(text) /\ ~REVIEW_CONDITIONAL_RE_search(text)
        THEN "ReviewAlreadyLeft"
        ELSE IF REVIEW_FUTURE_RE_search(text) /\ ~REVIEW_CONDITIONAL_RE_search(text)
        THEN "ReviewPromised"
        ELSE IF detect_chain_case(text).type # "none" THEN "ChainCase"
        ELSE IF /\ origin = "shopify" /\ ~amazon_order_present
                /\ contains_any(text, PRE_SALE_MATERIAL_TRIGGERS) /\ ~explicit
        THEN "PreSaleMaterialInquiry"
        ELSE IF /\ origin = "shopify" /\ ~amazon_order_present
                /\ contains_any(text, PRE_SALE_CUSTOM_TRIGGERS) /\ ~explicit
        THEN "PreSaleCustomSizeInquiry"
        ELSE IF /\ Contains(LowerStr(text), <<"s","h","a","d","e">>) \/ Contains(LowerStr(text), <<"m","a","t","c","h">>)
                /\ ~thread_has_any_photo(comments)
        THEN "ShadeMatchInquiry"
        ELSE IF explicit THEN "ExplicitReplacementRequest"
        ELSE IF RETURN_REQUEST_RE_search(text) THEN "ReturnPolicyQuestion"
        ELSE "NeedMoreInfo"

\* info_sufficient of compose_draft, which no branch reads
info_sufficient(ticket, comments) ==
    LET info_text == ThreadText(ticket, comments)
    IN  has_link(info_text) \/ (thread_has_any_photo(comments) /\ has_measurements(info_text))

\* compose_draft raises: one of its calls of message_has_photo and
\* thread_has_any_photo is made and raises (the first call of
\* thread_has_any_photo is skipped when the thread holds a link)
compose_draft_raises(ticket, comments) ==
    LET last == comments[Len(comments)]
        text == Strip(last.body)
        info_text == ThreadText(ticket, comments)
    IN  /\ \/ message_has_photo_raises(last)
           \/ /\ thread_has_any_photo_raises(comments)
              /\ \/ ~has_link(info_text)
                 \/ /\ draft_intent(ticket, comments) \notin
                           {"PreSaleMaterialInquiry", "PreSaleCustomSizeInquiry"}
                    /\ \/ Contains(LowerStr(text), <<"s","h","a","d","e">>)
                       \/ Contains(LowerStr(text), <<"m","a","t","c","h">>)
        /\ draft_intent(ticket, comments) \notin
               {"PureThanks", "ReviewAlreadyLeft", "ReviewPromised", "ChainCase"}

DRAFT_MARKER == <<"[","S","u","g","g","e","s","t","e","d"," ","r","e","p","l","y","]">>

\* compose_draft echoing every keyword that summarize_keywords returns
compose_draft_uncapped(ticket, comments, first_name) ==
    LET last == comments[Len(comments)]
        text == Strip(last.body)
        origin == classify_origin(ticket, comments)
        shopify_first_name == IF origin = "shopify"
                              THEN extract_first_name_from_shopify_body(comments) ELSE <<>>
        name == IF shopify_first_name # <<>> THEN shopify_first_name ELSE first_name
        info_text == ThreadText(ticket, comments)
        amazon_order_present == extract_order_number(info_text)
        photo_present == message_has_photo(last)
        compliment == has_compliment(info_text)
        intent == draft_intent(ticket, comments)
        msg ==
            IF intent = "PureThanks" THEN build_ack_review_request(name)
            ELSE IF intent = "ReviewAlreadyLeft" THEN review_left_reply(name)
            ELSE IF intent = "ReviewPromised" THEN review_promised_reply(name)
            ELSE IF intent = "ChainCase" THEN build_chain_reply(detect_chain_case(text), name)
            ELSE IF intent = "PreSaleMaterialInquiry"
            THEN build_shopify_materials(name, Strip(ticket.subject), compliment)
            ELSE IF intent = "PreSaleCustomSizeInquiry" THEN build_shopify_custom_size(name)
            ELSE IF intent = "ShadeMatchInquiry" THEN build_shade_photo_request(name)
            ELSE IF intent = "ExplicitReplacementRequest"
            THEN build_accept_replacement(name,
                     JoinWords(summarize_keywords(text), <<","," ">>),
                     RETURN_REQUEST_RE_search(text))
            ELSE IF intent = "ReturnPolicyQuestion" THEN build_return_only(name)
            ELSE IF origin = "shopify"
            THEN build_need_info_shopify(name, TRUE, FALSE, photo_present)
            ELSE IF origin = "amazon_qr"
            THEN build_need_info_amazon(name, TRUE, amazon_order_present, photo_present)
            ELSE IF Contains(LowerStr(info_text), <<"a","m","a","z","o","n">>)
            THEN build_need_info_amazon(name, TRUE, amazon_order_present, photo_present)
            ELSE build_need_info_generic(name, photo_present)
    IN  DRAFT_MARKER \o <<" ">> \o msg

\* first_name: the first name of the requester as get_user_first_name gave it
compose_draft(ticket, comments, first_name) ==
    LET last == comments[Len(comments)]
        text == Strip(last.body)
        origin == classify_origin(ticket, comments)
        shopify_first_name == IF origin = "shopify"
                              THEN extract_first_name_from_shopify_body(comments) ELSE <<>>
        name == IF shopify_first_name # <<>> THEN shopify_first_name ELSE first_name
        info_text == ThreadText(ticket, comments)
        amazon_order_present == extract_order_number(info_text)
        photo_present == message_has_photo(last)
        compliment == has_compliment(info_text)
        intent == draft_intent(ticket, comments)
        msg ==
            IF intent = "PureThanks" THEN build_ack_review_request(name)
            ELSE IF intent = "ReviewAlreadyLeft" THEN review_left_reply(name)
            ELSE IF intent = "ReviewPromised" THEN review_promised_reply(name)
            ELSE IF intent = "ChainCase" THEN build_chain_reply(detect_chain_case(text), name)
            ELSE IF intent = "PreSaleMaterialInquiry"
            THEN build_shopify_materials(name, Strip(ticket.subject), compliment)
            ELSE IF intent = "PreSaleCustomSizeInquiry" THEN build_shopify_custom_size(name)
            ELSE IF intent = "ShadeMatchInquiry" THEN build_shade_photo_request(name)
            ELSE IF intent = "ExplicitReplacementRequest"
            THEN build_accept_replacement(name,
                     JoinWords(SubSeq(summarize_keywords(text), 1,
                                      IF Len(summarize_keywords(text)) > 2 THEN 2
                                      ELSE Len(summarize_keywords(text))), <<","," ">>),
                     RETURN_REQUEST_RE_search(text))
            ELSE IF intent = "ReturnPolicyQuestion" THEN build_return_only(name)
            ELSE IF origin = "shopify"
            THEN build_need_info_shopify(name, TRUE, FALSE, photo_present)
            ELSE IF origin = "amazon_qr"
            THEN build_need_info_amazon(name, TRUE, amazon_order_present, photo_present)
            ELSE IF Contains(LowerStr(info_text), <<"a","m","a","z","o","n">>)
            THEN build_need_info_amazon(name, TRUE, amazon_order_present, photo_present)
            ELSE build_need_info_generic(name, photo_present)
    IN  DRAFT_MARKER \o <<" ">> \o msg

(***************************** draft gating ********************************)
\* last_is_end_user_public looking at the last public comment instead of the
\* last comment
last_is_end_user_public_skipping_notes(requester_id, comments) ==
    IF PublicIdx(comments) = {} THEN FALSE
    ELSE LET i == CHOOSE j \in PublicIdx(comments) : \A k \in PublicIdx(comments) : k <= j
         IN  comments[i].author_id = requester_id

last_is_end_user_public(requester_id, comments) ==
    IF comments = <<>> THEN FALSE
    ELSE LET lastc == comments[Len(comments)]
         IN  lastc.public /\ lastc.author_id = requester_id

\* user_wrote_after_last_internal asking that the thread hold no internal note
user_wrote_after_last_internal_no_notes(comments, requester_id) ==
    /\ \E i \in 1..Len(comments) : comments[i].public /\ comments[i].author_id = requester_id
    /\ \A i \in 1..Len(comments) : comments[i].public

\* indices are 1-based here, 0 standing for the code's -1
user_wrote_after_last_internal(comments, requester_id) ==
    LET users == {i \in 1..Len(comments) :
                      comments[i].public /\ comments[i].author_id = requester_id}
        internals == {i \in 1..Len(comments) : ~comments[i].public}
        Last(S) == IF S = {} THEN 0 ELSE CHOOSE i \in S : \A j \in S : j <= i
    IN  Last(users) > Last(internals)

(***************************** the ticket system ***************************)
\* Values an agent may enter in the tracking field.
TrackingValues == {<<"U","K","1">>, <<"U","K","2">>, <<"U","K","3">>, <<"u","k","-","1">>, <<" ">>}
ViaRels == {<<"w","e","b">>}
Subjects == {<<"H","e","l","p">>}

Ids == {1}

\* What a failing collaborator call can be in a step that makes the calls S.
\* (every call succeeds or, while the budget of failures lasts, one of them fails)
FlagsOver(S) ==
    {AllOk} \cup (IF faults < MaxFaults THEN {[c \in Calls |-> c # x] : x \in S} ELSE {})

\* The ticket system refuses every update of a closed ticket.
Writes == {"post", "eput", "rput", "status", "note"}
Mask(f, ticket) ==
    [c \in Calls |-> IF c \in Writes /\ ticket.status = "closed" THEN FALSE ELSE f[c]]

\* One entry of list_recent_tickets(): what process_once reads from it (the id,
\* the status, and of the tags whether DRAFT_TAG is among them).
SnapshotOf(id, ticket) ==
    [id |-> id, status |-> ticket.status, tags |-> ticket.tags \cap {DRAFT_TAG}]
Snapshot(id) == SnapshotOf(id, tickets[id])

\* The listings of all tickets, in any order of recency.
Listings ==
    LET n == Cardinality(DOMAIN tickets)
    IN  {[i \in 1..n |-> Snapshot(o[i])] :
            o \in {p \in [1..n -> DOMAIN tickets] : \A i, j \in 1..n : p[i] = p[j] => i = j}}

\* vis records, for the value the tracking field holds now, whether it has been
\* shown in a public comment since the field was set and no guard tag has been
\* removed since: "no", "human" (an agent sent it), "bot" (the bot sent it and
\* its guard tag is in place), "botlost" (the bot sent it, another actor then
\* removed its guard tag and the tag has not been installed again).
VisAfterBot(vis, old, new, posted) ==
    LET guard == GuardTag(normalize_tag(get_custom_field_value(new)))
    IN  IF posted # "none" \/ vis = "botlost"
        THEN IF guard \in new.tags THEN "bot"
             ELSE IF posted # "none" THEN "no" ELSE "botlost"
        ELSE IF Guards(old.tags) \subseteq Guards(new.tags) THEN vis
        ELSE "no"

\* every required variable is set and SIGNATURE_NAME is left to its default
DefaultEnv == [SIGNATURE_NAME |-> <<"N","o","e">>, set |-> REQUIRED_ENV]

\* no call of ensure_tags or remove_tags is in progress
NoCall == [fn |-> "none", at |-> "none", id |-> 0, tags |-> {}, existing |-> {}]

\* The process has started: the main thread serves /healthz and the
\* background thread, past validate_env, is about to run its first pass.
Init ==
    /\ tickets \in [Ids -> [status : {"open"}, tags : {{}}, tracking : {<<>>},
                            comments : {<<>>}, via_rel : ViaRels, subject : Subjects,
                            vis : {"no"}]]
    /\ pc = "idle"
    /\ todo = <<>>
    /\ acts = 0
    /\ faults = 0
    /\ env = DefaultEnv
    /\ main = "serving"
    /\ call = NoCall

(***************************** other actors ********************************)
HasRoom(id) == tickets[id].status # "closed"

\* The requester answers in public; a solved ticket is reopened by it.
CustomerReply(id) ==
    /\ HasRoom(id)
    /\ tickets' = [tickets EXCEPT
           ![id].comments = Append(@, [public |-> TRUE, author_id |-> Requester,
                                       body |-> <<"T","h","a","n","k","s","!">>, attachments |-> <<>>]),
           ![id].status = IF @ = "solved" THEN "open" ELSE @]
    /\ UNCHANGED <<pc, todo>>

\* A human agent writes in public, quoting the tracking field when it is filled.
AgentBody(ticket) ==
    IF get_custom_field_value(ticket) = <<>> THEN <<"H","e","l","l","o">>
    ELSE <<"S","e","n","t",":"," ">> \o get_custom_field_value(ticket)

AgentPublic(id) ==
    /\ HasRoom(id)
    /\ tickets' = [tickets EXCEPT
           ![id].comments = Append(@, [public |-> TRUE, author_id |-> Agent,
                                       body |-> AgentBody(tickets[id]), attachments |-> <<>>]),
           ![id].vis = IF @ = "no" /\ get_custom_field_value(tickets[id]) # <<>>
                       THEN "human" ELSE @]
    /\ UNCHANGED <<pc, todo>>

\* An agent fills, changes or empties the tracking field.
SetTracking(id, v) ==
    /\ HasRoom(id)
    /\ v # tickets[id].tracking
    /\ tickets' = [tickets EXCEPT ![id].tracking = v, ![id].vis = "no"]
    /\ UNCHANGED <<pc, todo>>

\* Another actor removes a guard tag.
RemoveGuard(id, g) ==
    /\ HasRoom(id)
    /\ g \in Guards(tickets[id].tags)
    /\ tickets' = [tickets EXCEPT
           ![id].tags = @ \ {g},
           ![id].vis = IF @ = "botlost" THEN "botlost"
                       ELSE IF @ = "bot" /\ g = GuardTag(normalize_tag(
                                    get_custom_field_value(tickets[id])))
                       THEN "botlost" ELSE "no"]
    /\ UNCHANGED <<pc, todo>>

\* An agent solves an open ticket; the ticket system closes a solved one.
SetStatus(id) ==
    /\ tickets[id].status \in {"open", "solved"}
    /\ tickets' = [tickets EXCEPT
           ![id].status = IF @ = "open" THEN "solved" ELSE "closed"]
    /\ UNCHANGED <<pc, todo>>

(***************************** process_once ********************************)
\* list_recent_tickets() at the head of each of the three loops; an exception
\* leaves process_once and the pass ends (background_loop catches it).
List(from, to) ==
    /\ pc = from
    /\ todo = <<>>
    /\ \E f \in FlagsOver({"list"}) :
          /\ faults' = IF f = AllOk THEN faults ELSE faults + 1
          /\ IF f["list"]
             THEN /\ pc' = to
                  /\ todo' \in Listings
             ELSE /\ pc' = "idle"
                  /\ todo' = <<>>
    /\ UNCHANGED <<tickets, acts, env, main, call>>

StartPass == List("idle", "origin")
ListForTracking == List("origin", "tracking")
ListForDraft == List("tracking", "draft")

\* The body of loop 0 for the listed ticket t, which the ticket system holds
\* as full: the ticket afterwards.
OriginBody(t, full, f) ==
        IF t.status = "closed" THEN full
        ELSE IF ~f["fetch"] \/ ~f["comments"] THEN full
        ELSE LET origin == classify_origin(full, full.comments)
                 new == [full EXCEPT !.tags = tag_origin(@, origin, f["eget"], f["eput"])]
             IN  [new EXCEPT !.vis = VisAfterBot(full.vis, full, new, "none")]

\* The body of loop 1 for the listed ticket t.
TrackBody(t, full, f) ==
        IF t.status = "closed" THEN full
        ELSE IF ~f["fetch"] THEN full
        ELSE LET r == handle_tracking_if_any(full, f)
             IN  [r.tk EXCEPT !.vis = VisAfterBot(full.vis, full, r.tk, r.posted)]

\* Draft gating without the test of the status
DraftWanted_any_status(t, comments) ==
    /\ comments # <<>>
    /\ last_is_end_user_public(Requester, comments)
    /\ ~(DRAFT_TAG \in t.tags /\ ~user_wrote_after_last_internal(comments, Requester))

\* Draft gating: TRUE when loop 2 goes on to compose a draft for the listed
\* ticket t, whose thread it has just read.
DraftWanted(t, comments) ==
    /\ t.status \notin {"solved", "closed"}
    /\ comments # <<>>
    /\ last_is_end_user_public(Requester, comments)
    /\ ~(DRAFT_TAG \in t.tags /\ ~user_wrote_after_last_internal(comments, Requester))

\* The body of loop 2 for the listed ticket t.
DraftBody(t, full, f) ==
    LET comments == full.comments
    IN  IF t.status \notin {"solved", "closed"} /\ ~f["comments"] THEN full
        ELSE IF ~DraftWanted(t, comments) THEN full
        ELSE IF ~f["fetch"] \/ compose_draft_raises(full, comments) \/ ~f["note"] THEN full
        ELSE add_internal_note_and_tags(full,
                 compose_draft(full, comments, get_user_first_name(f["user"])),
                 {DRAFT_TAG})

\* The collaborator calls one iteration of each loop can make.
LoopCalls(loop) ==
    IF loop = "origin" THEN {"fetch", "comments", "eget", "eput"}
    ELSE IF loop = "tracking"
    THEN {"fetch", "user", "comments", "post", "eget", "eput", "rget", "rput", "status"}
    ELSE {"comments", "fetch", "user", "note"}

\* Caught with fetch_ticket of the tracking loop outside the try block
Caught_fetch_outside_try(loop) ==
    IF loop = "tracking" THEN LoopCalls(loop) \ {"fetch"} ELSE LoopCalls(loop)

\* The calls whose failure does not leave the iteration: those made inside the
\* try block of the loop, and those whose exception the helper itself swallows
\* (get_ticket_tags, ensure_tags, remove_tags, get_user_first_name, the PUT of
\* the status).
Caught(loop) ==
    IF loop = "origin" THEN {"fetch", "comments", "eget", "eput"}
    ELSE IF loop = "tracking"
    THEN {"fetch", "user", "comments", "post", "eget", "eput", "rget", "rput", "status"}
    ELSE {"comments", "fetch", "user", "note"}

\* An exception leaves the iteration, and with it process_once.
Escapes(loop, f) == \E c \in LoopCalls(loop) \ Caught(loop) : ~f[c]

\* One iteration of a loop of process_once takes the next listed ticket; the
\* loop goes on with the remaining tickets unless an exception leaves it, which
\* ends the pass (background_loop catches it).
Visit(loop, f) ==
    /\ pc = loop
    /\ todo # <<>>
    /\ IF Escapes(loop, f)
       THEN pc' = "idle" /\ todo' = <<>>
       ELSE pc' = pc /\ todo' = Tail(todo)
    /\ UNCHANGED <<acts, env, main, call>>

OriginStep ==
    \E f \in FlagsOver(LoopCalls("origin")) :
          /\ Visit("origin", f)
          /\ faults' = IF f = AllOk THEN faults ELSE faults + 1
          /\ tickets' = [tickets EXCEPT ![Head(todo).id] =
                 OriginBody(Head(todo), tickets[Head(todo).id],
                            Mask(f, tickets[Head(todo).id]))]

TrackStep ==
    \E f \in FlagsOver(LoopCalls("tracking")) :
          /\ Visit("tracking", f)
          /\ faults' = IF f = AllOk THEN faults ELSE faults + 1
          /\ tickets' = [tickets EXCEPT ![Head(todo).id] =
                 TrackBody(Head(todo), tickets[Head(todo).id],
                            Mask(f, tickets[Head(todo).id]))]

DraftStep ==
    \E f \in FlagsOver(LoopCalls("draft")) :
          /\ Visit("draft", f)
          /\ faults' = IF f = AllOk THEN faults ELSE faults + 1
          /\ tickets' = [tickets EXCEPT ![Head(todo).id] =
                 DraftBody(Head(todo), tickets[Head(todo).id],
                            Mask(f, tickets[Head(todo).id]))]

\* the pass is over; background_loop sleeps POLL_INTERVAL
EndPass ==
    /\ pc = "draft"
    /\ todo = <<>>
    /\ pc' = "idle"
    /\ UNCHANGED <<tickets, todo, acts, faults, env, main, call>>

Environment ==
    /\ acts < MaxActs
    /\ acts' = acts + 1
    /\ UNCHANGED <<faults, env, main, call>>
    /\ \E id \in DOMAIN tickets :
        \/ CustomerReply(id)
        \/ AgentPublic(id)
        \/ \E v \in TrackingValues \cup {<<>>} : SetTracking(id, v)
        \/ \E g \in Guards(tickets[id].tags) : RemoveGuard(id, g)
        \/ SetStatus(id)

Next ==
    \/ StartPass
    \/ OriginStep
    \/ ListForTracking
    \/ TrackStep
    \/ ListForDraft
    \/ DraftStep
    \/ EndPass
    \/ Environment

Spec == Init /\ [][Next]_vars

(***************************** two tickets in a pass ***********************)
\* A desk of two open tickets, each with or without a comment of its requester
\* and with or without a tracking value, on which only the bot acts.
PairIds == {1, 2}

InitPair ==
    /\ tickets \in [PairIds ->
           [status : {"open"}, tags : {{}}, tracking : {<<>>, <<"U","K","1">>},
            comments : {<<>>, <<[public |-> TRUE, author_id |-> Requester,
                                 body |-> <<"T","h","a","n","k","s","!">>, attachments |-> <<>>]>>},
            via_rel : ViaRels, subject : Subjects, vis : {"no"}]]
    /\ pc = "idle"
    /\ todo = <<>>
    /\ acts = 0
    /\ faults = 0
    /\ env = DefaultEnv
    /\ main = "serving"
    /\ call = NoCall

NextPair ==
    \/ StartPass
    \/ OriginStep
    \/ ListForTracking
    \/ TrackStep
    \/ ListForDraft
    \/ DraftStep
    \/ EndPass

SpecPair == InitPair /\ [][NextPair]_vars

(***************************** what the requester writes *******************)
\* A message of the requester is made of some of these phrases, in this order,
\* with a blank between two of them.
PHRASES ==
    <<<<"T","h","a","n","k"," ","y","o","u">>,
      <<"I"," ","w","a","n","t"," ","t","o"," ","t","h","a","n","k"," ","y","o","u">>,
      <<"p","l","e","a","s","e"," ","r","e","p","l","a","c","e"," ","i","t">>,
      <<"p","l","e","a","s","e"," ","s","e","n","d"," ","a"," ","l","o","n","g","e","r"," ","c","h","a","i","n",",">>,
      <<"m","i","n","e"," ","i","s"," ","t","o","o"," ","s","h","o","r","t">>,
      <<"i","s"," ","i","t"," ","o","k","?">>,
      <<"I"," ","l","e","f","t"," ","a"," ","r","e","v","i","e","w">>,
      <<"I"," ","w","i","l","l"," ","l","e","a","v","e"," ","a"," ","r","e","v","i","e","w">>,
      <<"t","h","e"," ","g","o","l","d"," ","s","t","r","a","p">>,
      <<"i","s"," ","i","t"," ","s","o","f","t">>,
      <<"c","u","s","t","o","m"," ","s","i","z","e">>,
      <<"w","h","i","c","h"," ","s","h","a","d","e">>,
      <<"I"," ","p","r","e","f","e","r"," ","b","l","a","c","k"," ","i","n","s","t","e","a","d">>,
      <<"d","o"," ","I"," ","n","e","e","d"," ","t","o"," ","r","e","t","u","r","n"," ","t","h","e"," ","s","m","a","l","l"," ","b","r","o","w","n"," ","o","n","e">>,
      <<"h","e","l","l","o">>,
      <<"s","e","e"," ","h","t","t","p","s",":","/","/","x",".","c","o","/","b">>,
      <<"i","t"," ","i","s"," ","1","0"," ","x"," ","2","0"," ","x"," ","5">>,
      <<"o","r","d","e","r"," ","1","2","3","-","1","2","3","4","5","6","7","-","1","2","3","4","5","6","7">>,
      <<"f","r","o","m"," ","A","m","a","z","o","n">>>>

\* the sets of at most n phrases
RECURSIVE PhraseSets(_)
PhraseSets(n) ==
    IF n = 0 THEN {{}}
    ELSE PhraseSets(n - 1)
         \cup {S \cup {i} : S \in PhraseSets(n - 1), i \in 1..Len(PHRASES)}

\* the message made of the phrases of S that come after phrase i
RECURSIVE MessageFrom(_, _)
MessageFrom(S, i) ==
    IF i > Len(PHRASES) THEN <<>>
    ELSE IF i \notin S THEN MessageFrom(S, i + 1)
    ELSE IF MessageFrom(S, i + 1) = <<>> THEN PHRASES[i]
    ELSE PHRASES[i] \o <<" ">> \o MessageFrom(S, i + 1)

Messages == {MessageFrom(S, 1) : S \in PhraseSets(MaxPhrases) \ {{}}}

RequesterComment(body, photo) ==
    [public |-> TRUE, author_id |-> Requester, body |-> body,
     attachments |-> IF photo THEN <<<<"i","m","a","g","e","/","p","n","g">>>> ELSE <<>>]

\* The ticket the message arrives in: the channel, the subject, what the
\* requester wrote before, and whether a photo comes with the message.
TextContexts ==
    {[via_rel |-> <<"w","e","b">>, subject |-> <<"O","r","g","a","n","i","z","e","r">>, prior |-> <<>>, photo |-> FALSE],
     [via_rel |-> <<"w","e","b">>, subject |-> <<"O","r","g","a","n","i","z","e","r">>, prior |-> <<>>, photo |-> TRUE],
     [via_rel |-> <<"s","h","o","p","i","f","y">>, subject |-> <<"O","r","g","a","n","i","z","e","r">>, prior |-> <<>>, photo |-> FALSE],
     [via_rel |-> <<"w","e","b">>, subject |-> <<"F","r","e","e"," ","r","e","p","l","a","c","e","m","e","n","t"," ","f","o","r"," ","m","y"," ","A","m","a","z","o","n"," ","p","u","r","c","h","a","s","e">>,
      prior |-> <<>>, photo |-> FALSE],
     [via_rel |-> <<"w","e","b">>, subject |-> <<"O","r","g","a","n","i","z","e","r">>,
      prior |-> <<RequesterComment(<<"T","h","a","n","k"," ","y","o","u">>, FALSE)>>, photo |-> FALSE],
     [via_rel |-> <<"w","e","b">>, subject |-> <<"O","r","g","a","n","i","z","e","r">>,
      prior |-> <<RequesterComment(<<"M","y"," ","b","a","g">>, TRUE)>>, photo |-> FALSE],
     [via_rel |-> <<"w","e","b">>, subject |-> <<"O","r","g","a","n","i","z","e","r">>,
      prior |-> <<RequesterComment(
          <<"Y","o","u"," ","r","e","c","e","i","v","e","d"," ","a"," ","n","e","w"," ","m","e","s","s","a","g","e"," ","f","r","o","m"," ","y","o","u","r"," ","o","n","l","i","n","e"," ","s","t","o","r","e","'","s"," ","c","o","n","t","a","c","t"," ","f","o","r","m","\n","N","a","m","e",":"," ","B","e","a"," ","R","o","s","s","i">>,
          FALSE)>>,
      photo |-> FALSE]}

TextTicket(ctx, body) ==
    [status |-> "open", tags |-> {}, tracking |-> <<>>,
     comments |-> Append(ctx.prior, RequesterComment(body, ctx.photo)),
     via_rel |-> ctx.via_rel, subject |-> ctx.subject, vis |-> "no"]

\* One open ticket whose last comment is a message of the requester; only the
\* bot acts and every call it makes succeeds.  The persona is configured as Ada.
InitText ==
    /\ tickets \in {[id \in Ids |-> TextTicket(ctx, body)] :
                       ctx \in TextContexts, body \in Messages}
    /\ pc = "idle"
    /\ todo = <<>>
    /\ acts = 0
    /\ faults = MaxFaults
    /\ env = [DefaultEnv EXCEPT !.SIGNATURE_NAME = <<"A","d","a">>]
    /\ main = "serving"
    /\ call = NoCall

NextText ==
    \/ StartPass
    \/ OriginStep
    \/ ListForTracking
    \/ TrackStep
    \/ ListForDraft
    \/ DraftStep
    \/ EndPass

SpecText == InitText /\ [][NextText]_vars

(***************************** a thread that grows *************************)
\* What the requester sends: a body (empty when the comment has none) and the
\* content types of the attachments.
ThreadMessages ==
    {[body |-> <<"h","e","l","l","o">>, attachments |-> <<>>],
     [body |-> <<>>, attachments |-> <<>>],
     [body |-> <<"o","r","d","e","r"," ","1","2","3","-","1","2","3","4","5","6","7","-","1","2","3","4","5","6","7">>, attachments |-> <<>>],
     [body |-> <<"Y","o","u"," ","r","e","c","e","i","v","e","d"," ","a"," ","n","e","w"," ","m","e","s","s","a","g","e"," ","f","r","o","m"," ","y","o","u","r"," ","o","n","l","i","n","e"," ","s","t","o","r","e","'","s"," ","c","o","n","t","a","c","t"," ","f","o","r","m","\n","N","a","m","e",":"," ","B","e","a"," ","R","o","s","s","i">>,
      attachments |-> <<>>],
     [body |-> <<"h","e","l","l","o">>, attachments |-> <<<<>>, <<"i","m","a","g","e","/","p","n","g">>>>],
     [body |-> <<"h","e","l","l","o">>, attachments |-> <<None>>]}

ThreadTicket(via_rel, subject, m) ==
    [status |-> "open", tags |-> {}, tracking |-> <<>>,
     comments |-> <<[public |-> TRUE, author_id |-> Requester, body |-> m.body,
                     attachments |-> m.attachments]>>,
     via_rel |-> via_rel, subject |-> subject, vis |-> "no"]

\* One open ticket on which the requester has written once, from either
\* channel and under either subject; every call of the bot succeeds.
InitThread ==
    /\ tickets \in {[id \in Ids |-> ThreadTicket(via_rel, subject, m)] :
                       via_rel \in {<<"w","e","b">>, <<"S","h","o","p","i","f","y">>},
                       subject \in {<<"O","r","g","a","n","i","z","e","r">>, <<"F","r","e","e"," ","r","e","p","l","a","c","e","m","e","n","t"," ","f","o","r"," ","m","y"," ","A","m","a","z","o","n"," ","p","u","r","c","h","a","s","e">>},
                       m \in ThreadMessages}
    /\ pc = "idle"
    /\ todo = <<>>
    /\ acts = 0
    /\ faults = MaxFaults
    /\ env = DefaultEnv
    /\ main = "serving"
    /\ call = NoCall

\* The requester writes again.
RequesterWrites(id, m) ==
    /\ acts < MaxWrites
    /\ HasRoom(id)
    /\ tickets' = [tickets EXCEPT
           ![id].comments = Append(@, [public |-> TRUE, author_id |-> Requester,
                                       body |-> m.body, attachments |-> m.attachments]),
           ![id].status = IF @ = "solved" THEN "open" ELSE @]
    /\ acts' = acts + 1
    /\ UNCHANGED <<pc, todo, faults, env, main, call>>

NextThread ==
    \/ StartPass
    \/ OriginStep
    \/ ListForTracking
    \/ TrackStep
    \/ ListForDraft
    \/ DraftStep
    \/ EndPass
    \/ \E id \in DOMAIN tickets, m \in ThreadMessages : RequesterWrites(id, m)

SpecThread == InitThread /\ [][NextThread]_vars

(***************************** startup *************************************)
\* __main__ starts the background thread ...
ThreadStart ==
    /\ main = "start"
    /\ main' = "started"
    /\ pc' = "validate"
    /\ UNCHANGED <<tickets, todo, acts, faults, env, call>>

\* ... and serves /healthz from then on (app.run does not return).
AppRun ==
    /\ main = "started"
    /\ main' = "serving"
    /\ UNCHANGED <<tickets, pc, todo, acts, faults, env, call>>

\* background_loop calls validate_env first: SystemExit ends the thread that
\* raises it, and the background thread is not the main thread.
validate_env ==
    /\ pc = "validate"
    /\ pc' = IF REQUIRED_ENV \ env.set # {} THEN "dead" ELSE "idle"
    /\ UNCHANGED <<tickets, todo, acts, faults, env, main, call>>

\* The process is launched with any of the required variables set or not.
InitBoot ==
    /\ tickets \in [Ids -> [status : {"open"}, tags : {{}}, tracking : {<<>>},
                            comments : {<<>>}, via_rel : ViaRels, subject : Subjects,
                            vis : {"no"}]]
    /\ pc = "unstarted"
    /\ todo = <<>>
    /\ acts = 0
    /\ faults = 0
    /\ env \in [SIGNATURE_NAME : {<<"N","o","e">>}, set : SUBSET REQUIRED_ENV]
    /\ main = "start"
    /\ call = NoCall

NextBoot ==
    \/ ThreadStart
    \/ AppRun
    \/ validate_env
    \/ StartPass
    \/ OriginStep
    \/ ListForTracking
    \/ TrackStep
    \/ ListForDraft
    \/ DraftStep
    \/ EndPass

SpecBoot == InitBoot /\ [][NextBoot]_vars

(***************************** inside the tag helpers **********************)
\* ensure_tags and remove_tags read the tag list with one request and replace
\* it with another; between the two any other actor may write to the ticket.
HelperCalls ==
    {[fn |-> "ensure_tags", tags |-> {<<"source_generic_email", <<>>>>}],
     [fn |-> "remove_tags", tags |-> {GuardTag(<<"u","k","1">>)}]}

CallHelper(id, h) ==
    /\ pc = "helper"
    /\ call.at = "none"
    /\ call' = [fn |-> h.fn, at |-> "get", id |-> id, tags |-> h.tags, existing |-> {}]
    /\ UNCHANGED <<tickets, pc, todo, acts, faults, env, main>>

\* existing = get_ticket_tags(ticket_id)
GetTags ==
    /\ call.at = "get"
    /\ \E f \in FlagsOver({"eget"}) :
          /\ faults' = IF f = AllOk THEN faults ELSE faults + 1
          /\ call' = [call EXCEPT
                 !.existing = get_ticket_tags(tickets[call.id].tags, f["eget"]),
                 !.at = "put"]
    /\ UNCHANGED <<tickets, pc, todo, acts, env, main>>

\* z_put of the list computed from what was read
PutTags ==
    /\ call.at = "put"
    /\ \E f \in FlagsOver({"eput"}) :
          /\ faults' = IF f = AllOk THEN faults ELSE faults + 1
          /\ tickets' = [tickets EXCEPT ![call.id].tags =
                 IF ~f["eput"] THEN @
                 ELSE IF call.fn = "ensure_tags"
                 THEN ensure_tags(call.existing, call.tags, TRUE, TRUE)
                 ELSE remove_tags(call.existing, call.tags, TRUE, TRUE)]
    /\ call' = NoCall
    /\ UNCHANGED <<pc, todo, acts, env, main>>

\* Another actor (an agent, a trigger of the ticket system) adds a tag.
OtherActorTags(id, tag) ==
    /\ acts < MaxActs
    /\ tag \notin tickets[id].tags
    /\ tickets' = [tickets EXCEPT ![id].tags = @ \cup {tag}]
    /\ acts' = acts + 1
    /\ UNCHANGED <<pc, todo, faults, env, main, call>>

\* One ticket with any of these tags on it; the bot calls the helpers.
InitTags ==
    /\ tickets \in [Ids -> [status : {"open"},
                            tags : SUBSET {TAG_REPLACEMENT_SENT, GuardTag(<<"u","k","1">>), DRAFT_TAG},
                            tracking : {<<>>}, comments : {<<>>}, via_rel : ViaRels,
                            subject : Subjects, vis : {"no"}]]
    /\ pc = "helper"
    /\ todo = <<>>
    /\ acts = 0
    /\ faults = 0
    /\ env = DefaultEnv
    /\ main = "serving"
    /\ call = NoCall

NextTags ==
    \/ \E id \in DOMAIN tickets, h \in HelperCalls : CallHelper(id, h)
    \/ GetTags
    \/ PutTags
    \/ \E id \in DOMAIN tickets, tag \in {<<"vip", <<>>>>, <<"urgent", <<>>>>} :
           OtherActorTags(id, tag)

SpecTags == InitTags /\ [][NextTags]_vars

(***************************** properties **********************************)
\* One run of the tracking state machine on ticket t, every collaborator call
\* succeeding.
Run(t) == handle_tracking_if_any(t, AllOk)

\* The run with result r left ticket t as it was: no comment, no tag, no status
\* changed, False returned.
NoOp(t, r) == r.tk = t /\ ~r.ret /\ r.posted = "none"

\* The ticket system accepts updates of t.
Open(t) == t.status # "closed"

Field(t) == get_custom_field_value(t)
CurrentGuard(t) == GuardTag(normalize_tag(Field(t)))
LastOf(comments) == comments[Len(comments)]
LastPublic(comments) ==
    comments[CHOOSE j \in PublicIdx(comments) : \A k \in PublicIdx(comments) : k <= j]

\* The last public comment of the thread contains the value as it is written.
LastPublicShows(comments, value) ==
    PublicIdx(comments) # {} /\ Contains(LastPublic(comments).body, value)

IsBotPublic(c) == c.public /\ c.author_id = Bot
IsDraft(c) == ~c.public /\ c.author_id = Bot
IsAnnouncementOf(c, t) ==
    /\ IsBotPublic(c)
    /\ \E ok \in BOOLEAN :
           c.body = build_public_tracking_message(Field(t), get_user_first_name(ok))
IsCorrectionTo(c, t) ==
    /\ IsBotPublic(c)
    /\ \E ok \in BOOLEAN :
           c.body = build_public_tracking_correction_message(Field(t), get_user_first_name(ok))

\* C1 (as stated): for any ticket, the second of two runs of the tracking state
\* machine in succession, every collaborator call succeeding and nothing else
\* changing the ticket in between, is a no-op: no comment posted, no tag and no
\* status changed, False returned.
C1_SecondRunIsNoOp ==
    \A id \in DOMAIN tickets :
        LET t == tickets[id]
            r1 == Run(t)
            r2 == Run(r1.tk)
        IN  Open(t) => NoOp(r1.tk, r2)

\* What C2 says of one run on ticket t that carries the guard tag of value A:
\* exactly one public correction posted, the guard of A gone, the guard of the
\* field's value installed, replacement_sent in place, status solved, and a
\* further run a no-op.
CorrectionDone(t, A) ==
    LET r1 == Run(t)
        r2 == Run(r1.tk)
    IN  /\ r1.posted = "correction"
        /\ Len(r1.tk.comments) = Len(t.comments) + 1
        /\ SubSeq(r1.tk.comments, 1, Len(t.comments)) = t.comments
        /\ IsCorrectionTo(LastOf(r1.tk.comments), t)
        /\ GuardTag(normalize_tag(A)) \notin r1.tk.tags
        /\ CurrentGuard(t) \in r1.tk.tags
        /\ TAG_REPLACEMENT_SENT \in r1.tk.tags
        /\ r1.tk.status = "solved"
        /\ NoOp(r1.tk, r2)

\* C2 (as stated): a ticket carries the guard tag of a value A that a public
\* comment of its thread shows, and its tracking field holds a value B # A: one
\* run posts exactly one correction, removes the guard of A, installs the guard
\* of B, keeps replacement_sent, sets the status to solved, and a further run
\* is a no-op.
C2_CorrectionWheneverValuesDiffer ==
    \A id \in DOMAIN tickets : \A A \in TrackingValues :
        LET t == tickets[id]
        IN  (/\ Open(t)
             /\ Field(t) # <<>>
             /\ GuardTag(normalize_tag(A)) \in t.tags
             /\ \E i \in PublicIdx(t.comments) : Contains(t.comments[i].body, A)
             /\ Field(t) # A)
            => CorrectionDone(t, A)

\* C2 (amended): the same outcome, for a ticket whose only guard tag is that of
\* A, when B differs from A after normalize_tag and the last public comment
\* does not already contain B (as last_public_comment_contains_tracking judges).
C2_CorrectionOnGenuineMismatch ==
    \A id \in DOMAIN tickets : \A A \in TrackingValues :
        LET t == tickets[id]
        IN  (/\ Open(t)
             /\ Field(t) # <<>>
             /\ Guards(t.tags) = {GuardTag(normalize_tag(A))}
             /\ normalize_tag(Field(t)) # normalize_tag(A)
             /\ ~last_public_comment_contains_tracking(t.comments, Field(t)))
            => CorrectionDone(t, A)

\* C2 witness: a correction is the last comment of a thread, the ticket solved
\* and carrying the guard of the field's value as its only guard.
C2_Witness ==
    \E id \in DOMAIN tickets :
        LET t == tickets[id]
        IN  /\ t.comments # <<>>
            /\ IsCorrectionTo(LastOf(t.comments), t)
            /\ Guards(t.tags) = {CurrentGuard(t)}
            /\ TAG_REPLACEMENT_SENT \in t.tags
            /\ t.status = "solved"

\* A step in which the bot appends a comment to ticket id.
BotComment(id) ==
    /\ Len(tickets'[id].comments) = Len(tickets[id].comments) + 1
    /\ LastOf(tickets'[id].comments).author_id = Bot

\* C3 (as stated): while the tracking field is unchanged and no guard tag is
\* removed, a value that a public comment of the thread already shows (sent by
\* the bot or by a human agent) is not announced in public by the bot again.
C3_NeverAnnouncedAgain ==
    [][\A id \in DOMAIN tickets :
           tickets[id].vis \in {"human", "bot"}
           => ~(BotComment(id) /\ LastOf(tickets'[id].comments).public)]_vars

\* C4: no guard tag on the ticket and the last public comment contains the
\* field's value T: the run posts nothing, adds the guard of T and
\* replacement_sent, and sets the status to solved.
C4_RetroTag ==
    \A id \in DOMAIN tickets :
        LET t == tickets[id]
            r == Run(t)
        IN  (/\ Open(t)
             /\ Field(t) # <<>>
             /\ Guards(t.tags) = {}
             /\ LastPublicShows(t.comments, Field(t)))
            => /\ r.posted = "none"
               /\ r.tk.comments = t.comments
               /\ CurrentGuard(t) \in r.tk.tags
               /\ TAG_REPLACEMENT_SENT \in r.tk.tags
               /\ r.tk.status = "solved"

\* C4 witness: a human agent sent the value, the bot has posted nothing in
\* public, and the ticket carries the guard and replacement_sent and is solved.
C4_Witness ==
    \E id \in DOMAIN tickets :
        LET t == tickets[id]
        IN  /\ Field(t) # <<>>
            /\ LastPublicShows(t.comments, Field(t))
            /\ LastPublic(t.comments).author_id = Agent
            /\ \A i \in 1..Len(t.comments) : ~IsBotPublic(t.comments[i])
            /\ Guards(t.tags) = {CurrentGuard(t)}
            /\ TAG_REPLACEMENT_SENT \in t.tags
            /\ t.status = "solved"

\* The tracking loop of a pass visits ticket id, which the ticket system still
\* accepts updates of, and every collaborator call of the visit succeeds.
TrackingVisit(id) ==
    /\ pc = "tracking"
    /\ todo # <<>>
    /\ Head(todo).id = id
    /\ Head(todo).status # "closed"
    /\ Open(tickets[id])
    /\ todo' = Tail(todo)
    /\ faults' = faults

\* C5 (as stated): another actor removed the guard tag of a value the bot had
\* announced and that is unchanged: the next pass posts a public tracking
\* message for the value again and installs the guard again.
C5_ReannouncesAfterGuardLoss ==
    [][\A id \in DOMAIN tickets :
           (TrackingVisit(id) /\ tickets[id].vis = "botlost")
           => /\ BotComment(id)
              /\ LastOf(tickets'[id].comments).public
              /\ CurrentGuard(tickets[id]) \in tickets'[id].tags]_vars

\* C5 (amended): in that situation the next pass installs the guard again, and
\* it posts a public tracking message again exactly when the last public
\* comment no longer contains the value.
C5_ReinstallsGuardAfterLoss ==
    [][\A id \in DOMAIN tickets :
           (TrackingVisit(id) /\ tickets[id].vis = "botlost")
           => /\ CurrentGuard(tickets[id]) \in tickets'[id].tags
              /\ tickets'[id].vis = "bot"
              /\ IF last_public_comment_contains_tracking(tickets[id].comments,
                                                          Field(tickets[id]))
                 THEN tickets'[id].comments = tickets[id].comments
                 ELSE /\ BotComment(id)
                      /\ \/ IsAnnouncementOf(LastOf(tickets'[id].comments), tickets[id])
                         \/ IsCorrectionTo(LastOf(tickets'[id].comments), tickets[id])]_vars

\* C5 witness: no collaborator call has failed, the thread holds two
\* announcements of the value the field holds, and the guard is on the ticket.
C5_Witness ==
    \E id \in DOMAIN tickets :
        LET t == tickets[id]
        IN  /\ faults = 0
            /\ CurrentGuard(t) \in t.tags
            /\ \E i, j \in 1..Len(t.comments) :
                   /\ i < j
                   /\ IsAnnouncementOf(t.comments[i], t)
                   /\ IsAnnouncementOf(t.comments[j], t)

\* C6 (as stated): at steady state, that is when a further run would be a
\* no-op, the ticket carries at most one guard tag.
C6_OneGuardAtSteadyState ==
    \A id \in DOMAIN tickets :
        LET t == tickets[id]
        IN  (Open(t) /\ NoOp(t, Run(t))) => Cardinality(Guards(t.tags)) <= 1

\* What C7 says of one run on ticket t: exactly one public message posted, which
\* contains the value, the tags contain replacement_sent and the guard of the
\* normalized value, and the status is solved.
AnnouncementDone(t) ==
    LET r == Run(t)
    IN  /\ r.posted = "announcement"
        /\ Len(r.tk.comments) = Len(t.comments) + 1
        /\ SubSeq(r.tk.comments, 1, Len(t.comments)) = t.comments
        /\ IsBotPublic(LastOf(r.tk.comments))
        /\ Contains(LastOf(r.tk.comments).body, Field(t))
        /\ TAG_REPLACEMENT_SENT \in r.tk.tags
        /\ <<"tracking_sent_", normalize_tag(Field(t))>> \in r.tk.tags
        /\ r.tk.status = "solved"

\* C7 (as stated): a non-empty tracking value, no guard tag on the ticket, and
\* the value, as it is written, absent from the last public comment: one run
\* makes the first announcement.
C7_AnnouncesValueNotShownVerbatim ==
    \A id \in DOMAIN tickets :
        LET t == tickets[id]
        IN  (/\ Open(t)
             /\ Field(t) # <<>>
             /\ Guards(t.tags) = {}
             /\ ~LastPublicShows(t.comments, Field(t)))
            => AnnouncementDone(t)

\* C7 (amended): the same with absence judged on normalized text, the way
\* last_public_comment_contains_tracking compares; and the guard of
\* "UK123456789" is tracking_sent_uk123456789.
C7_FirstAnnouncement ==
    /\ normalize_tag(<<"U","K","1","2","3","4","5","6","7","8","9">>) = <<"u","k","1","2","3","4","5","6","7","8","9">>
    /\ \A id \in DOMAIN tickets :
        LET t == tickets[id]
        IN  (/\ Open(t)
             /\ Field(t) # <<>>
             /\ Guards(t.tags) = {}
             /\ ~last_public_comment_contains_tracking(t.comments, Field(t)))
            => AnnouncementDone(t)

\* C7 witness: the announcement of the field's value is the last comment of a
\* thread, after a public comment that did not contain the value; the ticket
\* is solved and carries both tags.
C7_Witness ==
    \E id \in DOMAIN tickets :
        LET t == tickets[id]
            n == Len(t.comments)
        IN  /\ n >= 2
            /\ IsAnnouncementOf(t.comments[n], t)
            /\ \A i \in 1..(n - 1) : ~IsBotPublic(t.comments[i])
            /\ t.comments[n - 1].public
            /\ ~Contains(normalize_tag(t.comments[n - 1].body), normalize_tag(Field(t)))
            /\ {TAG_REPLACEMENT_SENT, CurrentGuard(t)} \subseteq t.tags
            /\ t.status = "solved"

\* The text of c starts with the marker of a suggested reply.
HasDraftMarker(c) ==
    Len(c.body) >= Len(DRAFT_MARKER) /\ SubSeq(c.body, 1, Len(DRAFT_MARKER)) = DRAFT_MARKER

\* C8: whenever the bot appends a comment, either the comment is public, the
\* tracking loop posted it and it is the announcement or the correction of the
\* field's value; or it is an internal note, the draft loop posted it, it
\* carries the draft marker and the ticket carries DRAFT_TAG.
C8_OnlyTrackingMessagesArePublic ==
    [][\A id \in DOMAIN tickets :
           BotComment(id)
           => LET c == LastOf(tickets'[id].comments)
              IN  IF c.public
                  THEN /\ pc = "tracking"
                       /\ \/ IsAnnouncementOf(c, tickets[id])
                          \/ IsCorrectionTo(c, tickets[id])
                  ELSE /\ pc = "draft"
                       /\ HasDraftMarker(c)
                       /\ DRAFT_TAG \in tickets'[id].tags]_vars

\* C8 witness: a thread holds a draft, internal, on a ticket that carries
\* DRAFT_TAG, and a public tracking message of the bot.
C8_Witness ==
    \E id \in DOMAIN tickets :
        LET t == tickets[id]
        IN  /\ DRAFT_TAG \in t.tags
            /\ \E i \in 1..Len(t.comments) : IsDraft(t.comments[i]) /\ HasDraftMarker(t.comments[i])
            /\ \E j \in 1..Len(t.comments) : IsAnnouncementOf(t.comments[j], t)

\* C9: between two drafts of a thread the requester has written in public: no
\* second draft answers the same comment of the requester.
C9_OneDraftPerRequesterComment ==
    \A id \in DOMAIN tickets :
        LET c == tickets[id].comments
        IN  \A i, j \in 1..Len(c) :
                (i < j /\ IsDraft(c[i]) /\ IsDraft(c[j]))
                => \E k \in (i + 1)..(j - 1) : c[k].public /\ c[k].author_id = Requester

\* C9 witness: the draft loop of a later pass is about to visit a ticket, listed
\* open with DRAFT_TAG, whose last comment is the draft that answered the
\* requester's last comment.
C9_Witness ==
    /\ pc = "draft"
    /\ todo # <<>>
    /\ Head(todo).status = "open"
    /\ DRAFT_TAG \in Head(todo).tags
    /\ LET c == tickets[Head(todo).id].comments
       IN  /\ Len(c) >= 2
           /\ IsDraft(c[Len(c)])
           /\ c[Len(c) - 1].public /\ c[Len(c) - 1].author_id = Requester

\* C10: when a pass posts a draft for a ticket, the status the pass read for
\* the ticket in its listing is neither solved nor closed, the thread it read
\* is not empty and its last comment is a public comment of the requester.
C10_DraftOnlyWhenGated ==
    [][\A id \in DOMAIN tickets :
           (BotComment(id) /\ ~LastOf(tickets'[id].comments).public)
           => /\ pc = "draft"
              /\ todo # <<>>
              /\ Head(todo).id = id
              /\ Head(todo).status \notin {"solved", "closed"}
              /\ tickets[id].comments # <<>>
              /\ LastOf(tickets[id].comments).public
              /\ LastOf(tickets[id].comments).author_id = Requester]_vars

\* C10 witness: a draft stands right after a public comment of the requester
\* that followed a public comment of somebody else.
C10_Witness ==
    \E id \in DOMAIN tickets :
        LET c == tickets[id].comments
        IN  \E i \in 2..(Len(c) - 1) :
                /\ IsDraft(c[i + 1])
                /\ c[i].public /\ c[i].author_id = Requester
                /\ c[i - 1].public /\ c[i - 1].author_id # Requester

\* One whole pass of process_once over ticket id, which the ticket system holds
\* as t: every collaborator call succeeds and no other actor touches the ticket
\* while the pass runs.  Each loop reads its own listing.
Pass(id, t) ==
    LET t1 == OriginBody(SnapshotOf(id, t), t, AllOk)
        t2 == TrackBody(SnapshotOf(id, t1), t1, AllOk)
    IN  DraftBody(SnapshotOf(id, t2), t2, AllOk)

\* The pass that took ticket t to p appended exactly one comment, a draft.
FreshDraft(t, p) ==
    /\ Len(p.comments) = Len(t.comments) + 1
    /\ SubSeq(p.comments, 1, Len(t.comments)) = t.comments
    /\ IsDraft(LastOf(p.comments))
    /\ HasDraftMarker(LastOf(p.comments))
    /\ DRAFT_TAG \in p.tags

\* C11 (as stated): the latest comment of a ticket that is neither solved nor
\* closed is a public comment of the requester: the next pass, every call of
\* which succeeds, posts a fresh draft, DRAFT_TAG on the ticket or not.
C11_NextPassDrafts ==
    \A id \in DOMAIN tickets :
        LET t == tickets[id]
        IN  (/\ t.status \notin {"solved", "closed"}
             /\ last_is_end_user_public(Requester, t.comments))
            => FreshDraft(t, Pass(id, t))

\* C11 (amended): the same when the tracking state machine, which the pass runs
\* before the draft loop, has nothing to do for the ticket (it returns False);
\* when it posts or retro-tags, the ticket is solved and the pass posts no draft.
C11_NextPassDraftsUnlessTrackingActs ==
    \A id \in DOMAIN tickets :
        LET t == tickets[id]
        IN  (/\ t.status \notin {"solved", "closed"}
             /\ last_is_end_user_public(Requester, t.comments))
            => IF Run(t).ret
               THEN /\ Pass(id, t).status = "solved"
                    /\ \A i \in (Len(t.comments) + 1)..Len(Pass(id, t).comments) :
                           ~IsDraft(Pass(id, t).comments[i])
               ELSE FreshDraft(t, Pass(id, t))

\* C11 witness: a thread holds a draft, a later public comment of the requester
\* and, right after it, a second draft: the pass drafted again while DRAFT_TAG
\* was on the ticket.
C11_Witness ==
    \E id \in DOMAIN tickets :
        LET c == tickets[id].comments
        IN  \E i, j \in 1..Len(c) :
                /\ i < j /\ j < Len(c)
                /\ IsDraft(c[i])
                /\ c[j].public /\ c[j].author_id = Requester
                /\ IsDraft(c[j + 1])
                /\ DRAFT_TAG \in tickets[id].tags

\* C12: whatever call fails while an iteration of one of the three loops works
\* on a ticket, the exception is caught: the pass stays in the loop, the
\* remaining tickets of the listing are still to be visited, and no ticket
\* other than the one being worked on is changed.
C12_FailureDoesNotAbortPass ==
    [][(pc \in {"origin", "tracking", "draft"} /\ todo # <<>> /\ todo' # todo)
       => /\ pc' = pc
          /\ todo' = Tail(todo)
          /\ \A id \in DOMAIN tickets :
                 id # Head(todo).id => tickets'[id] = tickets[id]]_vars

\* C12 witness: the tracking loop has gone through a listing of two tickets
\* that both hold a tracking value; the one call that failed left one of them
\* without announcement and without guard, and the other one was announced.
C12_Witness ==
    /\ pc = "tracking"
    /\ todo = <<>>
    /\ faults = 1
    /\ \E a, b \in DOMAIN tickets :
           /\ a # b
           /\ Field(tickets[a]) # <<>>
           /\ Guards(tickets[a].tags) = {}
           /\ \A i \in 1..Len(tickets[a].comments) : ~IsBotPublic(tickets[a].comments[i])
           /\ tickets[b].comments # <<>>
           /\ IsAnnouncementOf(LastOf(tickets[b].comments), tickets[b])

\* C13 (as stated): in a pass, no iteration that comes before the tracking loop
\* changes a ticket: the tags, the thread and the status of every ticket are
\* what they were until the tracking state machine has been run.
C13_NothingWrittenBeforeTracking ==
    [][(pc = "origin" /\ todo # <<>> /\ todo' # todo)
       => \A id \in DOMAIN tickets :
              /\ tickets'[id].tags = tickets[id].tags
              /\ tickets'[id].comments = tickets[id].comments
              /\ tickets'[id].status = tickets[id].status]_vars

\* Every call succeeds, or one call fails, or all calls fail.
CallOutcomes ==
    {AllOk, [c \in Calls |-> FALSE]} \cup {[c \in Calls |-> c # x] : x \in Calls}

\* C14: the tracking field absent, empty or made of blanks only: whatever guard
\* tags the ticket carries and whatever call fails, a run of the tracking state
\* machine posts nothing, changes no tag and no status, raises nothing and
\* returns False.
C14_EmptyFieldIsNoOp ==
    \A id \in DOMAIN tickets : \A f \in CallOutcomes :
        LET t == tickets[id]
            r == handle_tracking_if_any(t, f)
        IN  Strip(t.tracking) = <<>>
            => /\ r.tk = t
               /\ ~r.ret
               /\ r.posted = "none"
               /\ ~r.raised

\* C14 witness: the tracking loop has gone through its listing; the field of a
\* ticket holds blanks only, and the ticket still carries the guard tag and the
\* announcement of an earlier value, which is its last comment.
C14_Witness ==
    /\ pc = "tracking"
    /\ todo = <<>>
    /\ \E id \in DOMAIN tickets :
           LET t == tickets[id]
           IN  /\ t.tracking # <<>>
               /\ Strip(t.tracking) = <<>>
               /\ Guards(t.tags) # {}
               /\ t.comments # <<>>
               /\ IsBotPublic(LastOf(t.comments))

\* The draft loop has gone through its listing and has answered the last
\* message of ticket id: the draft is the last comment of the thread and the
\* message of the requester stands right before it.
Answered(id) ==
    LET c == tickets[id].comments
    IN  /\ pc = "draft"
        /\ todo = <<>>
        /\ Len(c) >= 2
        /\ IsDraft(LastOf(c))
        /\ HasDraftMarker(LastOf(c))
        /\ c[Len(c) - 1].public
        /\ c[Len(c) - 1].author_id = Requester

\* the thread compose_draft was given, its last message and the draft it wrote
AskedThread(id) == SubSeq(tickets[id].comments, 1, Len(tickets[id].comments) - 1)
AskedText(id) == Strip(LastOf(AskedThread(id)).body)
AskedThreadText(id) == ThreadText(tickets[id], AskedThread(id))
Draft(id) == LastOf(tickets[id].comments).body

\* The words by which the reply of each intent is known in a draft.
IntentPhrase(intent) ==
    IF intent = "PureThanks" THEN <<"A"," ","q","u","i","c","k"," ","r","e","v","i","e","w","?">>
    ELSE IF intent = "ReviewAlreadyLeft" THEN <<"T","h","a","n","k"," ","y","o","u"," ","s","o"," ","m","u","c","h"," ","f","o","r"," ","y","o","u","r"," ","s","u","p","p","o","r","t">>
    ELSE IF intent = "ReviewPromised" THEN <<"T","h","a","t","'","s"," ","s","o"," ","k","i","n","d"," ","o","f"," ","y","o","u">>
    ELSE IF intent = "ChainCase" THEN <<"c","h","a","i","n"," ">>
    ELSE IF intent = "ChainGeneric" THEN <<"r","e","p","l","a","c","e","m","e","n","t"," ","a","c","c","o","r","d","i","n","g","l","y">>
    ELSE IF intent = "PreSaleMaterialInquiry" THEN <<"s","i","l","k",","," ","n","y","l","o","n"," ","o","r"," ","f","e","l","t">>
    ELSE IF intent = "PreSaleCustomSizeInquiry" THEN <<"C","u","s","t","o","m"," ","s","i","z","i","n","g">>
    ELSE IF intent = "ShadeMatchInquiry" THEN <<"s","e","n","d"," ","a"," ","q","u","i","c","k"," ","p","h","o","t","o">>
    ELSE IF intent = "ExplicitReplacementRequest" THEN <<"r","e","p","l","a","c","e","m","e","n","t"," ","r","i","g","h","t"," ","a","w","a","y">>
    ELSE IF intent = "ReturnPolicyQuestion" THEN <<"N","o"," ","n","e","e","d"," ","t","o"," ","s","e","n","d"," ","i","t"," ","b","a","c","k">>
    ELSE <<"C","o","u","l","d"," ","y","o","u"," ","p","l","e","a","s","e"," ","s","h","a","r","e">>

\* The draft of ticket id is the reply of the intent.
Shows(id, intent) ==
    \/ Contains(Draft(id), IntentPhrase(intent))
    \/ intent = "ChainCase" /\ Contains(Draft(id), IntentPhrase("ChainGeneric"))

\* The offsets where a match of THANKS_EXCEPTION_RE that starts at offset i ends.
IdiomEnd(t, i) ==
    LET s1 == Alt(t, {i}, {<<"w","o","u","l","d"," ","l","i","k","e">>, <<"w","a","n","t">>, <<"w","a","n","t","e","d">>, <<"j","u","s","t"," ","w","a","n","t">>})
        s2 == Lit(t, Spaces1(t, s1), <<"t","o">>)
    IN  AtBnd(t, Lit(t, Spaces1(t, s2), <<"t","h","a","n","k">>))

\* A request-action cue stands in t at a place that no match of the idiom
\* "want / would like to thank" covers.
CueOutsideIdiom(t) ==
    \E w \in REQUEST_CUES : \E i \in 0..(Len(t) - Len(w)) :
        /\ MatchAt(t, i, w) /\ Bnd(t, i) /\ Bnd(t, i + Len(w))
        /\ ~\E a \in 0..i : Bnd(t, a) /\ \E b \in IdiomEnd(t, a) : i + Len(w) <= b

\* C15 (as stated): when the draft loop answers with the PureThanks reply, a
\* matched text, the last message or the whole thread, holds no request-action
\* cue apart from the idiom "want / would like to thank": a text that holds the
\* idiom together with another cue, "please send" or "replace", is not taken
\* for pure thanks.
C15_PureThanksHasNoOtherCue ==
    \A id \in DOMAIN tickets :
        (Answered(id) /\ Shows(id, "PureThanks"))
        => \E m \in {AskedText(id), AskedThreadText(id)} :
               /\ is_pure_thanks(m)
               /\ ~CueOutsideIdiom(LowerStr(Strip(m)))

\* The last message of the thread holds a chain term together with a
\* longer-qualifier and a shorter-qualifier, and the draft is a chain reply.
BothQualifiers(id) ==
    /\ Answered(id)
    /\ contains_any_word(AskedText(id), CHAIN_WORDS)
    /\ contains_any_word(AskedText(id), LONG_WORDS)
    /\ contains_any_word(AskedText(id), SHORT_WORDS)
    /\ Shows(id, "ChainCase")

\* C16 (as stated): a message with a chain term, a longer-qualifier and a
\* shorter-qualifier, as "please send a longer chain, mine is too short", is a
\* chain length case with which = shorter: the draft promises a shorter chain
\* and holds the no-return sentence.
C16_BothQualifiersGiveShorter ==
    \A id \in DOMAIN tickets :
        BothQualifiers(id)
        => /\ detect_chain_case(AskedText(id)) = [type |-> "length", which |-> "shorter"]
           /\ Contains(Draft(id), <<"s","h","o","r","t","e","r"," ","c","h","a","i","n">>)
           /\ Contains(Draft(id), NO_RETURN_SENTENCE)

\* C16 (amended): such a message is a chain length case with which = longer,
\* the longer-qualifiers being looked for first: the draft promises a longer
\* chain, no shorter one, and holds the no-return sentence.
C16_BothQualifiersGiveLonger ==
    \A id \in DOMAIN tickets :
        BothQualifiers(id)
        => /\ detect_chain_case(AskedText(id)) = [type |-> "length", which |-> "longer"]
           /\ Contains(Draft(id), <<"l","o","n","g","e","r"," ","c","h","a","i","n">>)
           /\ ~Contains(Draft(id), <<"s","h","o","r","t","e","r"," ","c","h","a","i","n">>)
           /\ Contains(Draft(id), NO_RETURN_SENTENCE)

\* C16 witness: the draft loop has answered "please send a longer chain, mine
\* is too short" with the reply that promises a longer chain.
C16_Witness ==
    \E id \in DOMAIN tickets :
        /\ Answered(id)
        /\ AskedText(id) = <<"p","l","e","a","s","e"," ","s","e","n","d"," ","a"," ","l","o","n","g","e","r"," ","c","h","a","i","n",","," ","m","i","n","e"," ","i","s"," ","t","o","o"," ","s","h","o","r","t">>
        /\ Contains(Draft(id), <<"W","e","'","l","l"," ","s","e","n","d"," ","a"," ","l","o","n","g","e","r"," ","c","h","a","i","n"," ","r","i","g","h","t"," ","a","w","a","y">>)

\* C17 (as stated): when the draft loop answers with a request for information,
\* the draft asks for the model name or a link of the bag unless the thread
\* already holds sufficient information (a direct URL, or a photo and three
\* measurements), and it asks for an Amazon order number only when none is
\* found in the thread.
C17_AsksOnlyWhatIsMissing ==
    \A id \in DOMAIN tickets :
        (Answered(id) /\ Shows(id, "NeedMoreInfo"))
        => /\ Contains(Draft(id), ASK_MODEL_LINK)
                  <=> ~info_sufficient(tickets[id], AskedThread(id))
           /\ Contains(Draft(id), <<"y","o","u","r"," ","A","m","a","z","o","n"," ","o","r","d","e","r"," ","n","u","m","b","e","r">>)
                  => ~extract_order_number(AskedThreadText(id))

\* C18 (as stated): a draft that arranges a replacement, the reply of a chain
\* case or of an explicit replacement request, holds the no-return sentence,
\* and a draft that only asks for information holds it for no origin.
C18_NoReturnSentenceOnlyWithReplacement ==
    \A id \in DOMAIN tickets :
        Answered(id)
        => /\ (Shows(id, "ChainCase") \/ Shows(id, "ExplicitReplacementRequest"))
                  => Contains(Draft(id), NO_RETURN_SENTENCE)
           /\ Shows(id, "NeedMoreInfo") => ~Contains(Draft(id), NO_RETURN_SENTENCE)

\* C19: the last message of the requester matches the thanks vocabulary and
\* holds a question mark: neither the test of the last message nor the test of
\* the whole thread takes it for pure thanks, and the draft is not the
\* PureThanks reply.
C19_QuestionMarkIsNeverPureThanks ==
    \A id \in DOMAIN tickets :
        (/\ Answered(id)
         /\ THANKS_RE_search(LowerStr(AskedText(id)))
         /\ Contains(AskedText(id), <<"?">>))
        => /\ ~is_pure_thanks(AskedText(id))
           /\ ~is_pure_thanks(AskedThreadText(id))
           /\ ~Shows(id, "PureThanks")

\* C19 witness: the requester had thanked before and now writes "Thank you is
\* it ok?"; the draft loop has answered with a request for information.
C19_Witness ==
    \E id \in DOMAIN tickets :
        /\ Answered(id)
        /\ Len(AskedThread(id)) = 2
        /\ is_pure_thanks(AskedThread(id)[1].body)
        /\ AskedText(id) = <<"T","h","a","n","k"," ","y","o","u"," ","i","s"," ","i","t"," ","o","k","?">>
        /\ Shows(id, "NeedMoreInfo")

\* The rules of the cascade in the order of the claim; NeedMoreInfo is what is
\* left when none of them matches.
RULES ==
    <<"PureThanks", "ReviewAlreadyLeft", "ReviewPromised", "ChainCase",
      "PreSaleMaterialInquiry", "PreSaleCustomSizeInquiry", "ShadeMatchInquiry",
      "ExplicitReplacementRequest", "ReturnPolicyQuestion">>
Intents == {RULES[i] : i \in DOMAIN RULES} \cup {"NeedMoreInfo"}

\* The signals of a rule taken alone, whatever the other rules say.
Matches(rule, ticket, comments) ==
    LET text == Strip(LastOf(comments).body)
        thread_text == ThreadText(ticket, comments)
        presale == /\ classify_origin(ticket, comments) = "shopify"
                   /\ ~extract_order_number(thread_text)
                   /\ ~is_explicit_request(text)
    IN  IF rule = "PureThanks" THEN is_pure_thanks(text) \/ is_pure_thanks(thread_text)
        ELSE IF rule = "ReviewAlreadyLeft"
        THEN REVIEW_LEFT_RE_search(text) /\ ~REVIEW_CONDITIONAL_RE_search(text)
        ELSE IF rule = "ReviewPromised"
        THEN REVIEW_FUTURE_RE_search(text) /\ ~REVIEW_CONDITIONAL_RE_search(text)
        ELSE IF rule = "ChainCase" THEN contains_any_word(text, CHAIN_WORDS)
        ELSE IF rule = "PreSaleMaterialInquiry"
        THEN presale /\ contains_any(text, PRE_SALE_MATERIAL_TRIGGERS)
        ELSE IF rule = "PreSaleCustomSizeInquiry"
        THEN presale /\ contains_any(text, PRE_SALE_CUSTOM_TRIGGERS)
        ELSE IF rule = "ShadeMatchInquiry"
        THEN /\ Contains(LowerStr(text), <<"s","h","a","d","e">>) \/ Contains(LowerStr(text), <<"m","a","t","c","h">>)
             /\ ~thread_has_any_photo(comments)
        ELSE IF rule = "ExplicitReplacementRequest" THEN is_explicit_request(text)
        ELSE RETURN_REQUEST_RE_search(text)

\* the first rule from the i-th on that matches, NeedMoreInfo when none does
RECURSIVE FirstMatchFrom(_, _, _)
FirstMatchFrom(i, ticket, comments) ==
    IF i > Len(RULES) THEN "NeedMoreInfo"
    ELSE IF Matches(RULES[i], ticket, comments) THEN RULES[i]
    ELSE FirstMatchFrom(i + 1, ticket, comments)
FirstMatch(ticket, comments) == FirstMatchFrom(1, ticket, comments)

\* C20: the draft that answers a message is the reply of exactly one intent,
\* the first rule of the cascade that matches, NeedMoreInfo when no rule
\* matches; a message with a chain term and an explicit-request trigger that
\* no review or thanks rule takes gets a chain reply, never the reply of an
\* explicit replacement request.
C20_FirstMatchingRuleWins ==
    \A id \in DOMAIN tickets :
        Answered(id)
        => /\ LET first == FirstMatch(tickets[id], AskedThread(id))
              IN  /\ Shows(id, first)
                  /\ \A intent \in Intents \ {first} : ~Shows(id, intent)
           /\ (/\ contains_any_word(AskedText(id), CHAIN_WORDS)
               /\ is_explicit_request(AskedText(id)))
                  => ~Shows(id, "ExplicitReplacementRequest")

\* C20 witness: the draft loop has answered a message that holds a chain term
\* and is an explicit request, and the draft is a chain reply.
C20_Witness ==
    \E id \in DOMAIN tickets :
        /\ Answered(id)
        /\ contains_any_word(AskedText(id), CHAIN_WORDS)
        /\ is_explicit_request(AskedText(id))
        /\ Shows(id, "ChainCase")
        /\ FirstMatch(tickets[id], AskedThread(id)) = "ChainCase"

\* What the two pre-sale replies have in common: the ticket comes from the
\* Shopify contact form, no order number stands in the thread and the message
\* is no explicit request.
PreSaleGround(id) ==
    /\ classify_origin(tickets[id], AskedThread(id)) = "shopify"
    /\ ~extract_order_number(AskedThreadText(id))
    /\ ~is_explicit_request(AskedText(id))

\* C21: the draft is the reply on materials only on the pre-sale ground and
\* when the message holds a material trigger; it is the reply on custom sizes
\* only on the pre-sale ground and when the message holds a custom-size
\* trigger; when a pre-sale reply is written and both vocabularies hit, it is
\* the reply on materials.
C21_PreSaleOnlyOnItsGround ==
    \A id \in DOMAIN tickets :
        Answered(id)
        => /\ Shows(id, "PreSaleMaterialInquiry")
                  => /\ PreSaleGround(id)
                     /\ contains_any(AskedText(id), PRE_SALE_MATERIAL_TRIGGERS)
           /\ Shows(id, "PreSaleCustomSizeInquiry")
                  => /\ PreSaleGround(id)
                     /\ contains_any(AskedText(id), PRE_SALE_CUSTOM_TRIGGERS)
                     /\ ~contains_any(AskedText(id), PRE_SALE_MATERIAL_TRIGGERS)

\* C21 witness: a message of the Shopify contact form that holds a material
\* trigger and a custom-size trigger has been answered with the reply on
\* materials.
C21_Witness ==
    \E id \in DOMAIN tickets :
        /\ Answered(id)
        /\ PreSaleGround(id)
        /\ contains_any(AskedText(id), PRE_SALE_MATERIAL_TRIGGERS)
        /\ contains_any(AskedText(id), PRE_SALE_CUSTOM_TRIGGERS)
        /\ Shows(id, "PreSaleMaterialInquiry")

\* the keywords of a list written with commas
RECURSIVE SplitKeywords(_)
SplitKeywords(t) ==
    LET commas == {i \in 1..Len(t) : t[i] = ","}
    IN  IF t = <<>> THEN <<>>
        ELSE IF commas = {} THEN <<Strip(t)>>
        ELSE LET c == CHOOSE i \in commas : \A k \in commas : i <= k
             IN  <<Strip(SubSeq(t, 1, c - 1))>> \o SplitKeywords(SubSeq(t, c + 1, Len(t)))

\* The keywords the draft of ticket id echoes: what stands between its first
\* pair of parentheses.
Echoed(id) ==
    LET d == Draft(id)
        opens == {i \in 1..Len(d) : d[i] = "("}
    IN  IF opens = {} THEN <<>>
        ELSE LET o == CHOOSE i \in opens : \A k \in opens : i <= k
                 closes == {i \in (o + 1)..Len(d) : d[i] = ")"}
                 c == CHOOSE i \in closes : \A k \in closes : i <= k
             IN  SplitKeywords(SubSeq(d, o + 1, c - 1))

\* C22: the reply to an explicit replacement request echoes two keywords at
\* most and none of them twice, however many size, colour, chain or length
\* terms the message holds.
C22_AtMostTwoKeywordsEchoed ==
    \A id \in DOMAIN tickets :
        (Answered(id) /\ Shows(id, "ExplicitReplacementRequest"))
        => /\ Len(Echoed(id)) <= 2
           /\ \A i, j \in 1..Len(Echoed(id)) : i # j => Echoed(id)[i] # Echoed(id)[j]

\* C22 witness: a message that holds three keywords has been answered with the
\* reply to an explicit request, which echoes the first two of them.
C22_Witness ==
    \E id \in DOMAIN tickets :
        /\ Answered(id)
        /\ Shows(id, "ExplicitReplacementRequest")
        /\ Len(summarize_keywords(AskedText(id))) = 3
        /\ Echoed(id) = SubSeq(summarize_keywords(AskedText(id)), 1, 2)

\* The grounds of the two named origins, as the contract states them.
Storefront(t) ==
    \/ safe_lower(t.via_rel) = <<"s","h","o","p","i","f","y">>
    \/ Contains(LowerStr(JoinBodies(t.comments)), SHOPIFY_CONTACT_PHRASE)
Marketplace(t) ==
    \/ \E tok \in AMAZON_SUBJECT_TOKENS : Contains(LowerStr(t.subject), tok)
    \/ ORDER_PAT_search(LowerStr(JoinBodies(t.comments)))

ORIGIN_TAGS == {<<"source_shopify_form", <<>>>>, <<"source_amazon_qr", <<>>>>,
                <<"source_generic_email", <<>>>>}

PriorityTag(t) ==
    IF Storefront(t) THEN <<"source_shopify_form", <<>>>>
    ELSE IF Marketplace(t) THEN <<"source_amazon_qr", <<>>>>
    ELSE <<"source_generic_email", <<>>>>

\* C23: the origin loop tags a ticket with the origin that the strict priority
\* order gives (storefront on its grounds whatever the subject and the order
\* numbers, otherwise marketplace exactly on its grounds, otherwise generic
\* e-mail): that tag is on the ticket after the step and no other tag is added.
C23_OriginInPriorityOrder ==
    [][OriginStep =>
          LET id == Head(todo).id
          IN  /\ PriorityTag(tickets[id]) \in tickets'[id].tags
              /\ tickets'[id].tags \ tickets[id].tags \subseteq {PriorityTag(tickets[id])}]_vars

\* C23 witness: a ticket from the storefront channel, under the marketplace
\* subject and with an order number in its thread, tagged as storefront only.
C23_Witness ==
    \E id \in DOMAIN tickets :
        /\ safe_lower(tickets[id].via_rel) = <<"s","h","o","p","i","f","y">>
        /\ \E tok \in AMAZON_SUBJECT_TOKENS : Contains(LowerStr(tickets[id].subject), tok)
        /\ ORDER_PAT_search(LowerStr(JoinBodies(tickets[id].comments)))
        /\ tickets[id].tags \cap ORIGIN_TAGS = {<<"source_shopify_form", <<>>>>}

\* C24: signal extraction never raises on malformed input and reports absence
\* instead, so a draft step that finds the ticket due for a draft, with every
\* collaborator call succeeding, adds the draft whatever the bodies and the
\* attachments of the thread are.
C24_MalformedInputStillDrafted ==
    [][DraftStep =>
          LET id == Head(todo).id
          IN  DraftWanted(Head(todo), tickets[id].comments)
              => Len(tickets'[id].comments) = Len(tickets[id].comments) + 1]_vars

\* C29: once a pass is over a ticket carries at most one origin tag.
C29_OneOriginTag ==
    \A id \in DOMAIN tickets :
        pc = "idle" => Cardinality(tickets[id].tags \cap ORIGIN_TAGS) <= 1

\* C25: every draft ends with the signature of the configured persona.
C25_SignedWithPersona ==
    \A id \in DOMAIN tickets :
        Answered(id) =>
            /\ Len(Draft(id)) >= Len(SIGNATURE_NAME)
            /\ SubSeq(Draft(id), Len(Draft(id)) - Len(SIGNATURE_NAME) + 1, Len(Draft(id)))
                   = SIGNATURE_NAME

\* C26: with a required variable missing the whole process halts at startup:
\* no polling pass runs, and the process is never found serving the health
\* endpoint with its background thread gone.
C26_MissingConfigurationHaltsProcess ==
    REQUIRED_ENV \ env.set # {} =>
        /\ pc \notin {"idle", "origin", "tracking", "draft"}
        /\ ~(main = "serving" /\ pc = "dead")

\* C30: a tag that is on the ticket when the bot writes and was not there when
\* the bot read (another actor added it in between), and that the call is not
\* removing, is on the ticket after the write.
C30_TagAddedMeanwhileSurvives ==
    [][PutTags /\ faults' = 0 =>
          \A t \in (tickets[call.id].tags \ call.existing) \ call.tags :
              t \in tickets'[call.id].tags]_vars

\* C27: a step of the origin loop or of the tracking loop, whose only writes
\* to the tags are those of ensure_tags, remove_tags (called with a guard tag)
\* and additional_tags, leaves every tag other than a guard tag on the ticket.
C27_OtherTagsKept ==
    [][OriginStep \/ TrackStep =>
          \A id \in DOMAIN tickets :
              tickets[id].tags \ Guards(tickets[id].tags) \subseteq tickets'[id].tags]_vars

\* The ticket carries the guard tag of its tracking value and another one.
StaleGuardBeside(t) ==
    /\ Field(t) # <<>>
    /\ CurrentGuard(t) \in t.tags
    /\ Guards(t.tags) # {CurrentGuard(t)}

\* C28: while a ticket carries the guard tag of its tracking value together
\* with a stale one, the tracking loop posts nothing on it.
C28_StaleGuardDoesNotRepost ==
    [][TrackStep =>
          LET id == Head(todo).id
          IN  StaleGuardBeside(tickets[id])
              => Len(tickets'[id].comments) = Len(tickets[id].comments)]_vars

\* C28 witness: the correction to the present value was posted in an earlier
\* pass, both guard tags are on the ticket, the requester has written since,
\* and the tracking loop is about to visit the ticket.
C28_Witness ==
    /\ pc = "tracking"
    /\ todo # <<>>
    /\ LET t == tickets[Head(todo).id]
       IN  /\ StaleGuardBeside(t)
           /\ t.status = "open"
           /\ \E i \in 1..Len(t.comments) : IsCorrectionTo(t.comments[i], t)
           /\ LastOf(t.comments).author_id = Requester

====
